---- MODULE Spec2Model ----
(***************************************************************************)
(* Tool-call orchestration of fast-agent/api/services/llm_service.py       *)
(* (LLMService) together with the tool executor of fast-agent/api/main.py. *)
(*                                                                         *)
(* A Python dict or provider message object is a record with a fixed set   *)
(* of fields; a key that is missing holds Absent, a key that holds Python  *)
(* None holds None.  tool_calls is a sequence, its key state is in tcs.    *)
(***************************************************************************)
EXTENDS Integers, Sequences, FiniteSets, TLC

VARIABLES
    pc,               \* position of the orchestration run
    client,           \* self.client is configured (not None)
    stream,           \* the caller's stream flag
    executor,         \* a tool_executor was supplied
    tools,            \* the caller's tools argument
    messages,         \* the caller's messages list
    current_messages, \* the private working copy
    response,         \* response.choices[0].message of the first call
    tasks,            \* dispatched invocations, by dispatch index
    requests,         \* completion requests issued, in order
    second,           \* what the provider answered to the second call
    result,           \* value returned by generate_response (stream = False)
    emitted,          \* fragments yielded by the generator (stream = True)
    propagated,       \* an exception escaped generate_response
    fin,              \* formatter: the list handed to _format_messages_for_api
    fout,             \* formatter: its result
    fout2,            \* formatter: the result of formatting fout again
    tool_name,        \* execute_mcp_tool: its tool_name argument
    http,             \* execute_mcp_tool: how the HTTP exchange went
    returned,         \* execute_mcp_tool: what the call gave its caller
    runs,             \* event loop: the runs that share it, by run id
    holder,           \* event loop: the run whose code occupies the loop's thread
    door,             \* api/main.py chat: one /chat request
    app,              \* app/main.py chat: one /chat request
    sup               \* run.py: the supervisor and its two children

vars == <<pc, client, stream, executor, tools, messages, current_messages, response,
          tasks, requests, second, result, emitted, propagated, fin, fout, fout2,
          tool_name, http, returned, runs, holder, door, app, sup>>

orchVars == <<pc, client, stream, executor, tools, messages, current_messages,
              response, tasks, requests, second, result, emitted, propagated>>

fmtVars == <<fin, fout, fout2>>

toolVars == <<tool_name, http, returned>>

loopVars == <<runs, holder>>

extVars == <<door, app, sup>>

(***************************************************************************)
(* Bounds                                                                  *)
(***************************************************************************)
MaxCalls == 2

MaxTurns == 2

MaxSignals == 2

(***************************************************************************)
(* Python values                                                           *)
(***************************************************************************)
Absent == "<absent>"

None == "<None>"

\* str(x) as used by the f-strings
Str(x) == IF x = None THEN "None" ELSE x

\* truthiness of an optional string
Truthy(x) == x \notin {Absent, None, ""}

RECURSIVE FlatMap(_, _)
FlatMap(Op(_), s) ==
    IF s = << >> THEN << >> ELSE Op(Head(s)) \o FlatMap(Op, Tail(s))

(***************************************************************************)
(* Conversation turns                                                      *)
(***************************************************************************)
Turn(kind, role, content, tcs, tool_calls, tool_call_id, name) ==
    [kind |-> kind, role |-> role, content |-> content, tcs |-> tcs,
     tool_calls |-> tool_calls, tool_call_id |-> tool_call_id, name |-> name]

PlainTurn(role, content) ==
    Turn("dict", role, content, "absent", << >>, Absent, Absent)

\* the dict the orchestrator appends for one tool result
ToolTurn(id, name, content) ==
    Turn("dict", "tool", content, "absent", << >>, id, name)

HasKey(v) == v /= Absent

(***************************************************************************)
(* _format_messages_for_api                                                *)
(***************************************************************************)
\* MsgToAdd copying every key of the input dict
MsgToAddCopy(m) == [m EXCEPT !.kind = "dict"]

\* the dict branch: msg_to_add, before the decision to keep it
MsgToAdd(m) ==
    LET c1 == IF HasKey(m.content) /\ m.content /= None THEN m.content ELSE Absent
        keepTc == m.role = "assistant" /\ m.tcs /= "absent"
    IN  Turn("dict", m.role,
             IF m.role = "tool"
                 THEN (IF HasKey(m.content) THEN m.content ELSE "")
                 ELSE c1,
             IF keepTc THEN m.tcs ELSE "absent",
             IF keepTc THEN m.tool_calls ELSE << >>,
             IF m.role = "tool"
                 THEN (IF HasKey(m.tool_call_id) THEN m.tool_call_id ELSE None)
                 ELSE Absent,
             Absent)

FormatDict(m) ==
    IF Truthy(m.role) /\ (HasKey(m.content) \/ m.tcs /= "absent" \/ m.role = "tool")
    THEN LET a == MsgToAdd(m)
         IN  IF a.role = "tool" /\ HasKey(a.tool_call_id) THEN <<a>>
             ELSE IF a.role = "assistant" /\ (HasKey(a.content) \/ a.tcs /= "absent")
                 THEN <<a>>
             ELSE IF a.role \notin {"assistant", "tool"} /\ HasKey(a.content) THEN <<a>>
             ELSE << >>
    ELSE << >>

\* m.model_dump(exclude_unset=True, exclude_none=True): every set, non-None field
ModelDumpNoNone(m) ==
    LET drop(v) == IF v = None THEN Absent ELSE v
    IN  Turn("dict", drop(m.role), drop(m.content),
             IF m.tcs = "none" THEN "absent" ELSE m.tcs,
             IF m.tcs = "list" THEN m.tool_calls ELSE << >>,
             drop(m.tool_call_id), drop(m.name))

FormatObj(m) ==
    LET d == ModelDumpNoNone(m)
    IN  IF Truthy(d.role) /\ (HasKey(d.content) \/ d.role = "assistant")
        THEN <<d>> ELSE << >>

FormatOne(m) ==
    IF m.kind = "dict" THEN FormatDict(m)
    ELSE IF m.kind = "obj" THEN FormatObj(m)
    ELSE << >>    \* model_dump raised, or an object of unknown type

FormatMessagesForApi(ms) == FlatMap(FormatOne, ms)

(***************************************************************************)
(* The turns the formatter is exercised on                                 *)
(***************************************************************************)
SampleCalls == <<[id |-> "c1", name |-> "get_courses", arguments |-> "{}"]>>

TurnRoles == {Absent, "user", "assistant", "tool"}

TurnContents == {Absent, None, "hi"}

TurnIds == {Absent, "c1"}

ShapedTurns(kind) ==
    {Turn(kind, r, c, t, IF t = "list" THEN SampleCalls ELSE << >>, i, Absent) :
        r \in TurnRoles, c \in TurnContents, t \in {"absent", "list"}, i \in TurnIds}

Turns ==
    ShapedTurns("dict") \cup ShapedTurns("obj")
    \cup {ToolTurn("c1", "get_courses", "CS101, CS202"),
          \* system turns: with a content, without, and with a further key
          PlainTurn("system", "hi"),
          PlainTurn("system", Absent),
          Turn("dict", "system", "hi", "absent", << >>, "c1", Absent),
          \* a provider object with one more field set
          Turn("obj", "assistant", "hi", "absent", << >>, Absent, "helper"),
          Turn("other", Absent, Absent, "absent", << >>, Absent, Absent)}

(***************************************************************************)
(* What the provider and the tool server can answer                        *)
(***************************************************************************)
ToolNames == {"get_courses", "get_grades"}

ValidArgs == "{}"

InvalidArgs == "{course:"

DeepArgs == "[[[[[[..."

ArgTexts == {ValidArgs, InvalidArgs, DeepArgs}

\* json.loads: the parsed value, JSONDecodeError for text that is not JSON, and
\* RecursionError for JSON nested deeper than the interpreter's recursion limit
JsonLoads(text) ==
    IF text = ValidArgs THEN [raised |-> "no", value |-> "dict()"]
    ELSE IF text = DeepArgs
        THEN [raised |-> "Exception",
              value |-> "maximum recursion depth exceeded while decoding a JSON array"]
    ELSE [raised |-> "JSONDecodeError", value |-> "Expecting property name"]

CallId(i) == "c" \o ToString(i)

\* the tool_calls lists a first response can carry; the provider gives every
\* request of a response its own id
ToolCallLists ==
    UNION {{[i \in 1..n |-> [id |-> CallId(i), name |-> f[i][1], arguments |-> f[i][2]]] :
                f \in [1..n -> ToolNames \X ArgTexts]} : n \in 0..MaxCalls}

FirstContents == {None, "Let me check."}

SecondContents == {None, "", "You are in CS101 and CS202."}

\* what a second response can be: an answer, an empty answer, or no content
\* and a further tool request
SecondResponses ==
    {[content |-> c, tool_calls |-> << >>] : c \in SecondContents \ {None}}
    \cup {[content |-> None,
           tool_calls |-> <<[id |-> "d1", name |-> "get_grades", arguments |-> ValidArgs]>>]}

StreamDeltas == {<<"You are in ", "", "CS101">>, << >>}

ToolTexts == {"CS101, CS202", "A-"}

ApiErrors == {"Connection error."}

InputMessageLists ==
    {<<PlainTurn("system", "You are a Canvas assistant."),
       PlainTurn("user", "What courses am I in?")>>,
     \* a history that already holds a tool turn
     <<PlainTurn("user", "What are my grades?"),
       PlainTurn("tool", "A-"),
       PlainTurn("user", "What courses am I in?")>>}

\* the tools argument: None, a list of schema dicts, or a list one of whose
\* items is not a dict
NoTools == [key |-> "none", items |-> << >>]

ToolsArgs ==
    {NoTools,
     [key |-> "list", items |-> <<"dict">>],
     [key |-> "list", items |-> <<"dict", "str">>]}

NoResponse == [content |-> Absent, tool_calls |-> << >>]

NoSecond == [content |-> Absent, tool_calls |-> << >>, deltas |-> << >>]

(***************************************************************************)
(* generate_response: fixed texts                                          *)
(***************************************************************************)
ConfigErrorMessage ==
    "I'm sorry, but the AI service is not properly configured. Please check the DEEPSEEK_API_KEY environment variable."

Sentinel == "Sorry, I couldn't generate a response."

InvalidArgsText(name) ==
    "Error: Invalid arguments format received from LLM for tool " \o Str(name) \o "."

PrepErrorText(name, e) == "Error preparing tool " \o Str(name) \o ": " \o e

ExecErrorText(name, e) == "Error executing tool " \o Str(name) \o ": " \o e

TimeoutText(name) == "Error: Timeout waiting for tool " \o Str(name) \o " to execute."

NonStreamErrorText(e) == "An error occurred while generating a response: " \o e

StreamErrorText(e) == "\nAn error occurred during streaming: " \o e

AsyncForTypeError == "'async for' requires an object with __aiter__ method, got Stream"

(***************************************************************************)
(* Pieces of _generate_non_stream_response / _generate_stream_response     *)
(***************************************************************************)
\* the inline comprehension that builds the first request's messages
FirstFormatted(ms) ==
    LET one(m) == IF m.kind = "dict" /\ HasKey(m.role) /\ HasKey(m.content)
                  THEN <<PlainTurn(m.role, m.content)>> ELSE << >>
    IN  FlatMap(one, ms)

\* formatted_tools = tools if tools and all(isinstance(t, dict) ...) else None
FormattedTools(t) ==
    IF t.key = "list" /\ t.items /= << >> /\ \A i \in 1..Len(t.items) : t.items[i] = "dict"
    THEN t ELSE NoTools

\* FirstRequest passing the caller's stream flag on
FirstRequestCallerFlag(ms, t, s) ==
    [messages |-> FirstFormatted(ms),
     tools |-> FormattedTools(t),
     tool_choice |-> IF FormattedTools(t).key = "list" THEN "auto" ELSE None,
     stream |-> s]

\* the keyword arguments of the first chat.completions.create; s, the caller's
\* stream flag, is not used: stream=False is written out in both modes
FirstRequest(ms, t, s) ==
    [messages |-> FirstFormatted(ms),
     tools |-> FormattedTools(t),
     tool_choice |-> IF FormattedTools(t).key = "list" THEN "auto" ELSE None,
     stream |-> FALSE]

\* SecondRequest passing the tools on as the first request does
SecondRequestWithTools(ms, t, s) ==
    [messages |-> FormatMessagesForApi(ms),
     tools |-> FormattedTools(t),
     tool_choice |-> IF FormattedTools(t).key = "list" THEN "auto" ELSE None,
     stream |-> s]

\* SecondRequest with stream=False in both modes
SecondRequestNonStreaming(ms, t, s) ==
    [messages |-> FormatMessagesForApi(ms),
     tools |-> [key |-> "absent", items |-> << >>],
     tool_choice |-> Absent,
     stream |-> FALSE]

\* the keyword arguments of the second chat.completions.create: t, the tools
\* argument, is not used, no tools and no tool_choice are passed; stream is
\* False in _generate_non_stream_response and True in _generate_stream_response
SecondRequest(ms, t, s) ==
    [messages |-> FormatMessagesForApi(ms),
     tools |-> [key |-> "absent", items |-> << >>],
     tool_choice |-> Absent,
     stream |-> s]

\* response_message.model_dump(exclude_unset=True)
AssistantDump(resp) ==
    Turn("dict", "assistant", resp.content, "list", resp.tool_calls, Absent, Absent)

\* PrepErrorTurn with the JSONDecodeError handler only logging
PrepErrorTurnLogOnly(tc) ==
    LET parsed == JsonLoads(tc.arguments)
    IN  IF parsed.raised = "Exception"
            THEN <<ToolTurn(tc.id, tc.name, PrepErrorText(tc.name, parsed.value))>>
        ELSE << >>

\* one round of the preparation loop: the turn appended on a parse failure
PrepErrorTurn(tc) ==
    LET parsed == JsonLoads(tc.arguments)
    IN  IF parsed.raised = "JSONDecodeError"
            THEN <<ToolTurn(tc.id, tc.name, InvalidArgsText(tc.name))>>
        ELSE IF parsed.raised = "Exception"
            THEN <<ToolTurn(tc.id, tc.name, PrepErrorText(tc.name, parsed.value))>>
        ELSE << >>

\* one round of the preparation loop: the entry added to tasks and
\* tool_call_details when the arguments parse
PrepTask(tc) ==
    LET parsed == JsonLoads(tc.arguments)
    IN  IF parsed.raised = "no"
        THEN <<[id |-> tc.id, name |-> tc.name, args |-> parsed.value,
                st |-> "running", exc |-> FALSE, val |-> ""]>>
        ELSE << >>

\* the loop over enumerate(results) after asyncio.gather
ResultTurn(t) ==
    ToolTurn(t.id, t.name, IF t.exc THEN ExecErrorText(t.name, t.val) ELSE t.val)

RECURSIVE ResultTurnsSeen(_, _)
ResultTurnsSeen(ts, seen) ==
    IF ts = << >> THEN << >>
    ELSE IF Head(ts).name \in seen THEN ResultTurnsSeen(Tail(ts), seen)
    ELSE <<ResultTurn(Head(ts))>> \o ResultTurnsSeen(Tail(ts), seen \cup {Head(ts).name})

\* ResultTurns with the results keyed by tool name: one turn per name
ResultTurnsByName(ts) == ResultTurnsSeen(ts, {})

\* ResultTurns taking the id and name of the i-th result from the i-th request
\* of the response instead of the i-th dispatched one
ResultTurnsByRequestIndex(ts) ==
    [i \in 1..Len(ts) |->
        ResultTurn([ts[i] EXCEPT !.id = response.tool_calls[i].id,
                                 !.name = response.tool_calls[i].name])]

\* the loop over enumerate(results): result i goes with tool_call_details[i]
ResultTurns(ts) == [i \in 1..Len(ts) |-> ResultTurn(ts[i])]

\* FinalResponse without the `or` fallback
FinalResponseNoFallback(content) == content

\* final_response or "Sorry, I couldn't generate a response."
FinalResponse(content) == IF Truthy(content) THEN content ELSE Sentinel

\* the except clause of _generate_non_stream_response re-raising
NonStreamExceptReraise(e) == [result |-> Absent, propagated |-> TRUE]

\* the except clause of _generate_non_stream_response
NonStreamExcept(e) == [result |-> NonStreamErrorText(e), propagated |-> FALSE]

\* the except clause of _generate_stream_response re-raising
StreamExceptReraise(e) == [emitted |-> << >>, propagated |-> TRUE]

\* the except clause of _generate_stream_response
StreamExcept(e) == [emitted |-> <<StreamErrorText(e)>>, propagated |-> FALSE]

\* `async for chunk in stream_response`: self.client is the synchronous OpenAI
\* client, whose Stream has no __aiter__, so the statement raises TypeError
\* before any chunk is read
AsyncFor(deltas) == [raised |-> TRUE, error |-> AsyncForTypeError, yielded |-> << >>]

AllSettled == \A i \in 1..Len(tasks) : tasks[i].st = "done"

Terminal == {"FINALIZE", "FAILED", "CONFIG_ERROR"}

(***************************************************************************)
(* execute_mcp_tool (api/main.py): the HTTP exchange and what is returned   *)
(***************************************************************************)
StatusCodes == {200, 404, 500}

NoBody ==
    [parse |-> "none", result |-> "absent", content |-> "absent", text |-> "absent",
     error |-> "absent", extra |-> FALSE]

\* bodies that are JSON objects: the "result" member is missing, null, a
\* string or an object; the object's "content" is missing, a string, an empty
\* list, a list of strings, a list of objects without "text" or a list whose
\* first object has "text"; that text is a string, a list or null; "error" is
\* missing, an object with or without "message", or a string; "jsonrpc" is
\* there or not
DictBodies ==
    {b \in [parse : {"dict"},
            result : {"absent", "null", "str", "dict"},
            content : {"absent", "str", "empty", "nondict", "notext", "text"},
            text : {"absent", "str", "list", "null"},
            error : {"absent", "msg", "nomsg", "str"},
            extra : BOOLEAN] :
        /\ b.result /= "dict" => b.content = "absent"
        /\ b.content = "text" <=> b.text /= "absent"}

\* what the tool server can put in a response body: text that is not JSON, a
\* JSON array, or a JSON object
Bodies ==
    {[NoBody EXCEPT !.parse = "notjson"], [NoBody EXCEPT !.parse = "list"]} \cup DictBodies

NoExchange == [kind |-> "none", status |-> 0, body |-> NoBody]

\* outcomes of `await client.post(...)`: httpx.ConnectError, a timeout, or a
\* response
Exchanges ==
    {[NoExchange EXCEPT !.kind = "connect_error"], [NoExchange EXCEPT !.kind = "timeout"]}
    \cup [kind : {"response"}, status : StatusCodes, body : Bodies]

RECURSIVE Join(_)
Join(parts) ==
    IF parts = << >> THEN ""
    ELSE IF Len(parts) = 1 THEN parts[1]
    ELSE parts[1] \o ", " \o Join(Tail(parts))

ToolText == "CS101, CS202"

\* json.dumps of content_list[0]['text']
TextJson(b) ==
    CASE b.text = "str" -> "\"" \o ToolText \o "\""
      [] b.text = "list" -> "[\"CS101\", \"CS202\"]"
      [] OTHER -> "null"

\* json.dumps(mcp_result['content'])
ContentJson(b) ==
    CASE b.content = "str" -> "\"done\""
      [] b.content = "empty" -> "[]"
      [] b.content = "nondict" -> "[\"done\"]"
      [] b.content = "notext" -> "[{\"type\": \"image\"}]"
      [] OTHER -> "[{\"type\": \"text\", \"text\": " \o TextJson(b) \o "}]"

\* json.dumps(mcp_result), mcp_result = result_data.get("result", {})
ResultJson(b) ==
    CASE b.result = "absent" -> "{}"
      [] b.result = "null" -> "null"
      [] b.result = "str" -> "\"ok\""
      [] OTHER -> IF b.content = "absent" THEN "{\"status\": \"ok\"}"
                  ELSE "{\"content\": " \o ContentJson(b) \o "}"

ErrorMessage == "Tool not found"

ErrorJson(b) ==
    CASE b.error = "msg" -> "{\"code\": -32000, \"message\": \"" \o ErrorMessage \o "\"}"
      [] b.error = "nomsg" -> "{\"code\": -32000}"
      [] OTHER -> "\"" \o ErrorMessage \o "\""

\* response.text; for a JSON body this is also json.dumps(response.json())
BodyText(b) ==
    CASE b.parse = "notjson" -> "Service Unavailable"
      [] b.parse = "list" -> "[\"CS101\", \"CS202\"]"
      [] OTHER ->
           "{" \o Join((IF b.extra THEN <<"\"jsonrpc\": \"2.0\"">> ELSE << >>)
                       \o (IF b.result /= "absent"
                           THEN <<"\"result\": " \o ResultJson(b)>> ELSE << >>)
                       \o (IF b.error /= "absent"
                           THEN <<"\"error\": " \o ErrorJson(b)>> ELSE << >>)) \o "}"

NoReturn == [raised |-> FALSE, type |-> "none", value |-> ""]

\* `return <str>`
ReturnText(v) == [raised |-> FALSE, type |-> "str", value |-> v]

\* `return <list>`: the value is shown as Python prints it
ReturnList(v) == [raised |-> FALSE, type |-> "list", value |-> v]

ConnectErrorText(name) ==
    "Error: Could not connect to the tool execution server for " \o Str(name) \o "."

InvalidFormatText(name) ==
    "Error: Received invalid response format from the tool execution server for "
        \o Str(name) \o "."

UnexpectedErrorText(name) ==
    "Error: An unexpected error occurred while executing tool " \o Str(name) \o "."

ToolErrorText(name, message) == "Error from tool '" \o Str(name) \o "': " \o message

\* response.raise_for_status() raises httpx.HTTPStatusError
RaiseForStatus(status) == status \notin 200..299

\* ExtractResult with every fallback returning json.dumps(result_data)
ExtractResultWholeBody(name, b) ==
    IF b.parse = "dict" /\ b.result = "dict" /\ b.content = "text" /\ b.text = "str"
    THEN [raised |-> "no", ret |-> ReturnText(ToolText)]
    ELSE [raised |-> "no", ret |-> ReturnText(BodyText(b))]

\* the statements between response.json() and the except clauses; raised
\* names the exception class that leaves them
ExtractResult(name, b) ==
    IF b.parse = "list"
        \* result_data.get on a list
        THEN [raised |-> "AttributeError", ret |-> NoReturn]
    ELSE IF b.result = "dict" /\ b.content /= "absent"
        THEN IF b.content = "text"
             THEN CASE b.text = "str" -> [raised |-> "no", ret |-> ReturnText(ToolText)]
                    \* a list can be sliced for the log line and is returned as it is
                    [] b.text = "list" ->
                         [raised |-> "no", ret |-> ReturnList("['CS101', 'CS202']")]
                    \* None[:200]
                    [] OTHER -> [raised |-> "TypeError", ret |-> NoReturn]
             ELSE [raised |-> "no", ret |-> ReturnText(ContentJson(b))]
    ELSE IF b.error /= "absent"
        THEN CASE b.error = "msg" ->
                    [raised |-> "no", ret |-> ReturnText(ToolErrorText(name, ErrorMessage))]
               [] b.error = "nomsg" ->
                    [raised |-> "no", ret |-> ReturnText(ToolErrorText(name, "Unknown error"))]
               \* error_details.get on a str
               [] OTHER -> [raised |-> "AttributeError", ret |-> NoReturn]
    ELSE [raised |-> "no", ret |-> ReturnText(ResultJson(b))]

\* the try body: the exception class that leaves it, or the value it returns
TryBody(name, h) ==
    IF h.kind = "timeout" THEN [raised |-> "TimeoutException", ret |-> NoReturn]
    ELSE IF h.kind = "connect_error" THEN [raised |-> "RequestError", ret |-> NoReturn]
    ELSE IF RaiseForStatus(h.status) THEN [raised |-> "HTTPStatusError", ret |-> NoReturn]
    ELSE IF h.body.parse = "notjson" THEN [raised |-> "JSONDecodeError", ret |-> NoReturn]
    ELSE ExtractResult(name, h.body)

\* execute_mcp_tool: the try body and its four except clauses
ExecuteMcpTool(name, h) ==
    LET body == TryBody(name, h)
    IN  CASE body.raised = "no" -> body.ret
          [] body.raised = "TimeoutException" -> ReturnText(TimeoutText(name))
          [] body.raised = "RequestError" -> ReturnText(ConnectErrorText(name))
          [] body.raised = "JSONDecodeError" -> ReturnText(InvalidFormatText(name))
          [] OTHER -> ReturnText(UnexpectedErrorText(name))

(***************************************************************************)
(* Initial state: one call of generate_response about to run               *)
(***************************************************************************)
FmtIdle == fin = << >> /\ fout = << >> /\ fout2 = << >>

ToolIdle == tool_name = "" /\ http = NoExchange /\ returned = NoReturn

LoopIdle == runs = << >> /\ holder = 0

\* no /chat request at the api front door
NoDoor ==
    [body |-> "none", message |-> "", history |-> [iterable |-> TRUE, items |-> << >>],
     stream |-> FALSE, bridge |-> [kind |-> "none", raw |-> << >>], fetched |-> 0,
     calls |-> 0, tools_arg |-> NoTools, chat_history |-> << >>, status |-> 0,
     orch |-> "none"]

\* no /chat request at app/main.py
NoApp ==
    [key |-> FALSE,
     first |-> [status |-> 0, content |-> Absent, kind |-> "absent", calls |-> << >>],
     history |-> << >>, executed |-> << >>, payloads |-> << >>, tool |-> "none",
     reply |-> Absent]

\* run.py not started: no child process, no name bound
NoSup ==
    [mpc |-> "OFF", frames |-> << >>,
     child |-> [fastapi |-> "none", streamlit |-> "none"],
     bound |-> [fastapi |-> FALSE, streamlit |-> FALSE],
     is_shutting_down |-> FALSE, bodies |-> 0, signals |-> 0]

ExtIdle == door = NoDoor /\ app = NoApp /\ sup = NoSup

\* the orchestrator's variables while another component is looked at
OrchIdle ==
    /\ client = TRUE
    /\ stream = FALSE
    /\ executor = TRUE
    /\ tools = NoTools
    /\ messages = << >>
    /\ current_messages = << >>
    /\ response = NoResponse
    /\ tasks = << >>
    /\ requests = << >>
    /\ second = NoSecond
    /\ result = Absent
    /\ emitted = << >>
    /\ propagated = FALSE

Init ==
    /\ pc = "INIT"
    /\ client \in BOOLEAN
    /\ stream \in BOOLEAN
    /\ executor \in BOOLEAN
    /\ tools \in ToolsArgs
    /\ messages \in InputMessageLists
    /\ current_messages = << >>
    /\ response = NoResponse
    /\ tasks = << >>
    /\ requests = << >>
    /\ second = NoSecond
    /\ result = Absent
    /\ emitted = << >>
    /\ propagated = FALSE
    /\ FmtIdle
    /\ ToolIdle
    /\ LoopIdle
    /\ ExtIdle

(***************************************************************************)
(* Actions                                                                 *)
(***************************************************************************)
\* generate_response with self.client None
ConfigError ==
    /\ pc = "INIT"
    /\ ~client
    /\ pc' = "CONFIG_ERROR"
    /\ IF stream
       THEN emitted' = <<ConfigErrorMessage>> /\ UNCHANGED result
       ELSE result' = ConfigErrorMessage /\ UNCHANGED emitted
    /\ UNCHANGED <<client, stream, executor, tools, messages, current_messages, response,
                   tasks, requests, second, propagated, fmtVars, toolVars, loopVars, extVars>>

\* IssueFirstCall without the `if not self.client` return before it
IssueFirstCallUnguarded ==
    /\ pc = "INIT"
    /\ current_messages' = messages
    /\ requests' = <<FirstRequest(messages, tools, stream)>>
    /\ pc' = "FIRST_CALL"
    /\ UNCHANGED <<client, stream, executor, tools, messages, response, tasks, second,
                   result, emitted, propagated, fmtVars, toolVars, loopVars, extVars>>

\* copy the messages and issue the first completion request
IssueFirstCall ==
    /\ pc = "INIT"
    /\ client
    /\ current_messages' = messages
    /\ requests' = <<FirstRequest(messages, tools, stream)>>
    /\ pc' = "FIRST_CALL"
    /\ UNCHANGED <<client, stream, executor, tools, messages, response, tasks, second,
                   result, emitted, propagated, fmtVars, toolVars, loopVars, extVars>>

\* an exception reaches the except clause of the running mode
Fail(e) ==
    /\ pc' = "FAILED"
    /\ IF stream
       THEN /\ emitted' = emitted \o StreamExcept(e).emitted
            /\ propagated' = StreamExcept(e).propagated
            /\ UNCHANGED result
       ELSE /\ result' = NonStreamExcept(e).result
            /\ propagated' = NonStreamExcept(e).propagated
            /\ UNCHANGED emitted

FirstCallRaises ==
    /\ pc = "FIRST_CALL"
    /\ \E e \in ApiErrors : Fail(e)
    /\ UNCHANGED <<client, stream, executor, tools, messages, current_messages, response,
                   tasks, requests, second, fmtVars, toolVars, loopVars, extVars>>

\* FirstCallReturns with current_messages bound to the caller's list instead
\* of a copy of it: the append of the assistant turn lands in messages too
FirstCallReturnsAliased ==
    /\ pc = "FIRST_CALL"
    /\ \E c \in FirstContents, tcl \in ToolCallLists :
        /\ response' = [content |-> c, tool_calls |-> tcl]
        /\ IF tcl /= << >> /\ executor
           THEN /\ current_messages' = Append(current_messages, AssistantDump(response'))
                /\ messages' = Append(messages, AssistantDump(response'))
                /\ pc' = "TOOLS_REQUESTED"
           ELSE /\ pc' = "NO_TOOLS"
                /\ UNCHANGED <<messages, current_messages>>
    /\ UNCHANGED <<client, stream, executor, tools, tasks, requests, second,
                   result, emitted, propagated, fmtVars, toolVars, loopVars, extVars>>

\* FirstCallReturns deciding on `if tool_calls` alone
FirstCallReturnsNoExecutorTest ==
    /\ pc = "FIRST_CALL"
    /\ \E c \in FirstContents, tcl \in ToolCallLists :
        /\ response' = [content |-> c, tool_calls |-> tcl]
        /\ IF tcl /= << >>
           THEN /\ current_messages' = Append(current_messages, AssistantDump(response'))
                /\ pc' = "TOOLS_REQUESTED"
           ELSE /\ pc' = "NO_TOOLS"
                /\ UNCHANGED current_messages
    /\ UNCHANGED <<client, stream, executor, tools, messages, tasks, requests, second,
                   result, emitted, propagated, fmtVars, toolVars, loopVars, extVars>>

\* the first response arrives; `if tool_calls and tool_executor` is decided
FirstCallReturns ==
    /\ pc = "FIRST_CALL"
    /\ \E c \in FirstContents, tcl \in ToolCallLists :
        /\ response' = [content |-> c, tool_calls |-> tcl]
        /\ IF tcl /= << >> /\ executor
           THEN /\ current_messages' = Append(current_messages, AssistantDump(response'))
                /\ pc' = "TOOLS_REQUESTED"
           ELSE /\ pc' = "NO_TOOLS"
                /\ UNCHANGED current_messages
    /\ UNCHANGED <<client, stream, executor, tools, messages, tasks, requests, second,
                   result, emitted, propagated, fmtVars, toolVars, loopVars, extVars>>

\* the else branch: the first response's content is the answer
FinalizeNoTools ==
    /\ pc = "NO_TOOLS"
    /\ pc' = "FINALIZE"
    /\ IF stream
       THEN /\ emitted' = Append(emitted,
                                 IF Truthy(response.content) THEN response.content ELSE "")
            /\ UNCHANGED result
       ELSE /\ result' = FinalResponse(response.content)
            /\ UNCHANGED emitted
    /\ UNCHANGED <<client, stream, executor, tools, messages, current_messages, response,
                   tasks, requests, second, propagated, fmtVars, toolVars, loopVars, extVars>>

\* the preparation loop, then asyncio.gather starts every prepared invocation
PrepareTools ==
    /\ pc = "TOOLS_REQUESTED"
    /\ current_messages' = current_messages \o FlatMap(PrepErrorTurn, response.tool_calls)
    /\ tasks' = FlatMap(PrepTask, response.tool_calls)
    /\ pc' = "EXECUTING_TOOLS"
    /\ UNCHANGED <<client, stream, executor, tools, messages, response, requests, second,
                   result, emitted, propagated, fmtVars, toolVars, loopVars, extVars>>

Settle(i, exc, val) ==
    /\ tasks' = [tasks EXCEPT ![i] = [@ EXCEPT !.st = "done", !.exc = exc, !.val = val]]
    /\ UNCHANGED <<pc, client, stream, executor, tools, messages, current_messages, response,
                   requests, second, result, emitted, propagated, fmtVars, toolVars, loopVars, extVars>>

\* the tool executor returns a text
ToolReturns ==
    /\ pc = "EXECUTING_TOOLS"
    /\ \E i \in 1..Len(tasks), t \in ToolTexts :
        /\ tasks[i].st = "running"
        /\ Settle(i, FALSE, t)

\* ToolRaises with gather called without return_exceptions=True: the
\* exception leaves gather and reaches the except clause of the running mode
ToolRaisesAborts ==
    /\ pc = "EXECUTING_TOOLS"
    /\ \E i \in 1..Len(tasks) :
        /\ tasks[i].st = "running"
        /\ Fail("tool failed")
    /\ UNCHANGED <<client, stream, executor, tools, messages, current_messages, response,
                   tasks, requests, second, fmtVars, toolVars, loopVars, extVars>>

\* the tool executor raises; gather(return_exceptions=True) keeps the
\* exception as this invocation's result
ToolRaises ==
    /\ pc = "EXECUTING_TOOLS"
    /\ \E i \in 1..Len(tasks) :
        /\ tasks[i].st = "running"
        /\ Settle(i, TRUE, "tool failed")

\* the tool server stops answering this invocation
ServerSilent ==
    /\ pc = "EXECUTING_TOOLS"
    /\ \E i \in 1..Len(tasks) :
        /\ tasks[i].st = "running"
        /\ tasks' = [tasks EXCEPT ![i].st = "silent"]
    /\ UNCHANGED <<pc, client, stream, executor, tools, messages, current_messages, response,
                   requests, second, result, emitted, propagated, fmtVars, toolVars, loopVars, extVars>>

\* TimeoutEnabled for a client built with timeout=None
TimeoutDisabled(t) == FALSE

\* execute_mcp_tool: httpx.AsyncClient(timeout=60.0) gives up on a silent server
TimeoutEnabled(t) == t.st = "silent"

HttpTimeout ==
    /\ pc = "EXECUTING_TOOLS"
    /\ \E i \in 1..Len(tasks) :
        /\ TimeoutEnabled(tasks[i])
        /\ Settle(i, FALSE, TimeoutText(tasks[i].name))

\* IssueSecondCall without waiting for gather
IssueSecondCallEarly ==
    /\ pc = "EXECUTING_TOOLS"
    /\ current_messages' = current_messages \o ResultTurns(tasks)
    /\ requests' = Append(requests, SecondRequest(current_messages', tools, stream))
    /\ pc' = "SECOND_CALL"
    /\ UNCHANGED <<client, stream, executor, tools, messages, response, tasks, second,
                   result, emitted, propagated, fmtVars, toolVars, loopVars, extVars>>

\* gather has returned: append the results, format, issue the second request
IssueSecondCall ==
    /\ pc = "EXECUTING_TOOLS"
    /\ AllSettled
    /\ current_messages' = current_messages \o ResultTurns(tasks)
    /\ requests' = Append(requests, SecondRequest(current_messages', tools, stream))
    /\ pc' = "SECOND_CALL"
    /\ UNCHANGED <<client, stream, executor, tools, messages, response, tasks, second,
                   result, emitted, propagated, fmtVars, toolVars, loopVars, extVars>>

SecondCallRaises ==
    /\ pc = "SECOND_CALL"
    /\ \E e \in ApiErrors : Fail(e)
    /\ UNCHANGED <<client, stream, executor, tools, messages, current_messages, response,
                   tasks, requests, second, fmtVars, toolVars, loopVars, extVars>>

\* SecondCallReturns going back to the tool round when the second response
\* requests tools
SecondCallReturnsLoops ==
    /\ pc = "SECOND_CALL"
    /\ ~stream
    /\ \E r \in SecondResponses :
        /\ second' = [content |-> r.content, tool_calls |-> r.tool_calls, deltas |-> << >>]
        /\ IF r.tool_calls /= << >> /\ executor
           THEN /\ response' = r
                /\ current_messages' = Append(current_messages, AssistantDump(response'))
                /\ pc' = "TOOLS_REQUESTED"
                /\ UNCHANGED result
           ELSE /\ result' = FinalResponse(r.content)
                /\ pc' = "FINALIZE"
                /\ UNCHANGED <<response, current_messages>>
    /\ UNCHANGED <<client, stream, executor, tools, messages, tasks, requests, emitted,
                   propagated, fmtVars, toolVars, loopVars, extVars>>

\* stream = False: the second response's content is the answer, its
\* tool_calls are not read
SecondCallReturns ==
    /\ pc = "SECOND_CALL"
    /\ ~stream
    /\ \E r \in SecondResponses :
        /\ second' = [content |-> r.content, tool_calls |-> r.tool_calls, deltas |-> << >>]
        /\ result' = FinalResponse(r.content)
    /\ pc' = "FINALIZE"
    /\ UNCHANGED <<client, stream, executor, tools, messages, current_messages, response,
                   tasks, requests, emitted, propagated, fmtVars, toolVars, loopVars, extVars>>

\* stream = True: create(stream=True) returns the provider stream and the
\* generator iterates it
SecondCallStreams ==
    /\ pc = "SECOND_CALL"
    /\ stream
    /\ \E d \in StreamDeltas :
        /\ second' = [content |-> Absent, tool_calls |-> << >>, deltas |-> d]
        /\ LET it == AsyncFor(d)
           IN  IF it.raised
               THEN Fail(it.error)
               ELSE /\ emitted' = emitted \o it.yielded
                    /\ pc' = "FINALIZE"
                    /\ UNCHANGED <<result, propagated>>
    /\ UNCHANGED <<client, stream, executor, tools, messages, current_messages, response,
                   tasks, requests, fmtVars, toolVars, loopVars, extVars>>

Next ==
    \/ ConfigError
    \/ IssueFirstCall
    \/ FirstCallRaises
    \/ FirstCallReturns
    \/ FinalizeNoTools
    \/ PrepareTools
    \/ ToolReturns
    \/ ToolRaises
    \/ ServerSilent
    \/ HttpTimeout
    \/ IssueSecondCall
    \/ SecondCallRaises
    \/ SecondCallReturns
    \/ SecondCallStreams

Spec == Init /\ [][Next]_vars

\* the event loop runs every ready step, the provider answers or fails, and the
\* HTTP client's timer fires
LiveSpec == Spec /\ WF_vars(Next)

(***************************************************************************)
(* The formatter on its own: a list is formatted, and the result formatted *)
(* again                                                                   *)
(***************************************************************************)
\* the lists of n turns
TurnListsOfLen(n) == [1..n -> Turns]

FormatInit ==
    /\ pc = "FMT_INPUT"
    /\ client = TRUE
    /\ stream = FALSE
    /\ executor = FALSE
    /\ tools = NoTools
    /\ messages = << >>
    /\ current_messages = << >>
    /\ response = NoResponse
    /\ tasks = << >>
    /\ requests = << >>
    /\ second = NoSecond
    /\ result = Absent
    /\ emitted = << >>
    /\ propagated = FALSE
    /\ \E n \in 0..MaxTurns : fin \in TurnListsOfLen(n)
    /\ fout = << >>
    /\ fout2 = << >>
    /\ ToolIdle
    /\ LoopIdle
    /\ ExtIdle

FormatFirst ==
    /\ pc = "FMT_INPUT"
    /\ fout' = FormatMessagesForApi(fin)
    /\ pc' = "FMT_ONCE"
    /\ UNCHANGED <<client, stream, executor, tools, messages, current_messages, response,
                   tasks, requests, second, result, emitted, propagated, fin, fout2, toolVars, loopVars, extVars>>

FormatAgain ==
    /\ pc = "FMT_ONCE"
    /\ fout2' = FormatMessagesForApi(fout)
    /\ pc' = "FMT_TWICE"
    /\ UNCHANGED <<client, stream, executor, tools, messages, current_messages, response,
                   tasks, requests, second, result, emitted, propagated, fin, fout, toolVars, loopVars, extVars>>

FormatNext == FormatFirst \/ FormatAgain

FormatSpec == FormatInit /\ [][FormatNext]_vars

(***************************************************************************)
(* A first response with a tool call whose function.name is None           *)
(***************************************************************************)
\* tool_calls lists in which at least one request has no name
NamelessCallLists ==
    {tcl \in UNION {{[i \in 1..n |-> [id |-> CallId(i), name |-> f[i][1],
                                       arguments |-> f[i][2]]] :
                        f \in [1..n -> (ToolNames \cup {None}) \X {ValidArgs, InvalidArgs}]} :
                    n \in 1..MaxCalls} :
        \E i \in 1..Len(tcl) : tcl[i].name = None}

\* the first response arrives with such a list; `if tool_calls and
\* tool_executor` is decided as for any other response
FirstCallReturnsNameless ==
    /\ pc = "FIRST_CALL"
    /\ \E tcl \in NamelessCallLists :
        /\ response' = [content |-> None, tool_calls |-> tcl]
        /\ IF executor
           THEN /\ current_messages' = Append(current_messages, AssistantDump(response'))
                /\ pc' = "TOOLS_REQUESTED"
           ELSE /\ pc' = "NO_TOOLS"
                /\ UNCHANGED current_messages
    /\ UNCHANGED <<client, stream, executor, tools, messages, tasks, requests, second,
                   result, emitted, propagated, fmtVars, toolVars, loopVars, extVars>>

NamelessNext ==
    \/ ConfigError
    \/ IssueFirstCall
    \/ FirstCallRaises
    \/ FirstCallReturnsNameless
    \/ FinalizeNoTools
    \/ PrepareTools
    \/ ToolReturns
    \/ ToolRaises
    \/ ServerSilent
    \/ HttpTimeout
    \/ IssueSecondCall
    \/ SecondCallRaises
    \/ SecondCallReturns
    \/ SecondCallStreams

NamelessSpec == Init /\ [][NamelessNext]_vars

(***************************************************************************)
(* The /chat front door of api/main.py                                     *)
(***************************************************************************)
\* "history": a list of entries (one of them a tool turn, one without content),
\* or a value that cannot be iterated (null)
DoorHistories ==
    {[iterable |-> TRUE, items |-> << >>],
     [iterable |-> TRUE, items |-> <<PlainTurn("user", "What are my grades?")>>],
     [iterable |-> TRUE,
      items |-> <<Turn("dict", "tool", "A-", "absent", << >>, "c1", Absent),
                  PlainTurn("assistant", Absent)>>],
     [iterable |-> FALSE, items |-> << >>]}

\* how fetching and formatting the catalog can go: the bridge is unreachable,
\* answers with an error status, with text that is not JSON, with JSON of
\* another shape, with a "tools" that is not a list, with a list; or an
\* exception leaves get_tools / format_tools_for_llm.  An entry of the list is
\* a usable tool, a dict without a name, or something that is not a dict
Bridges ==
    {[kind |-> k, raw |-> << >>] :
        k \in {"connect_error", "http_error", "bad_json", "bad_shape", "not_list", "raises"}}
    \cup {[kind |-> "list", raw |-> r] :
            r \in {<< >>, <<"ok">>, <<"nondict", "ok">>, <<"nameless">>}}

\* get_tools: every failure inside is logged and leaves all_tools empty
GetTools(b) ==
    IF b.kind = "list" THEN SelectSeq(b.raw, LAMBDA t : t = "ok") ELSE << >>

\* format_tools_for_llm: one function schema (a dict) per tool
FormatToolsForLlm(l) == [key |-> "list", items |-> [i \in 1..Len(l) |-> "dict"]]

\* for msg in history: if isinstance(msg, dict) and "role" in msg and "content" in msg
ChatHistory(items) ==
    FlatMap(LAMBDA m : IF m.role /= Absent /\ m.content /= Absent
                       THEN <<PlainTurn(m.role, m.content)>> ELSE << >>,
            items)

ChatInit ==
    /\ pc = "CHAT_RECEIVED"
    /\ OrchIdle
    /\ FmtIdle
    /\ ToolIdle
    /\ LoopIdle
    /\ door \in {[NoDoor EXCEPT !.body = b, !.message = m, !.history = h, !.stream = st] :
                    \* the body: not JSON, JSON that is not an object, an object
                    b \in {"invalid", "list", "dict"},
                    m \in {"", "What courses am I in?"}, h \in DoorHistories,
                    st \in BOOLEAN}
    /\ app = NoApp
    /\ sup = NoSup

\* the handler ends with an HTTP status
ChatEnds(status) ==
    /\ door' = [door EXCEPT !.status = status]
    /\ pc' = "CHAT_DONE"

\* the body is read, the message tested and chat_history built
ChatReceive ==
    /\ pc = "CHAT_RECEIVED"
    /\ IF door.body = "invalid" THEN ChatEnds(400)
       ELSE IF door.body = "list" THEN ChatEnds(500)
       ELSE IF ~Truthy(door.message) THEN ChatEnds(400)
       ELSE IF ~door.history.iterable THEN ChatEnds(500)
       ELSE /\ door' = [door EXCEPT !.chat_history =
                           Append(ChatHistory(door.history.items),
                                  PlainTurn("user", door.message))]
            /\ pc' = "CHAT_HISTORY_BUILT"
    /\ UNCHANGED <<client, stream, executor, tools, messages, current_messages, response,
                   tasks, requests, second, result, emitted, propagated, fmtVars,
                   toolVars, loopVars, app, sup>>

\* ChatGetTools answering a failed catalog with an HTTP error
ChatGetToolsFailing ==
    /\ pc = "CHAT_HISTORY_BUILT"
    /\ \E b \in Bridges :
        IF b.kind = "list"
        THEN /\ door' = [door EXCEPT !.bridge = b, !.fetched = @ + 1,
                                     !.tools_arg = FormatToolsForLlm(GetTools(b))]
             /\ pc' = "CHAT_TOOLS_READY"
        ELSE /\ door' = [door EXCEPT !.bridge = b, !.fetched = @ + 1, !.status = 500]
             /\ pc' = "CHAT_DONE"
    /\ UNCHANGED <<client, stream, executor, tools, messages, current_messages, response,
                   tasks, requests, second, result, emitted, propagated, fmtVars,
                   toolVars, loopVars, app, sup>>

\* get_tools and format_tools_for_llm inside try; except: llm_formatted_tools = None
ChatGetTools ==
    /\ pc = "CHAT_HISTORY_BUILT"
    /\ \E b \in Bridges :
        door' = [door EXCEPT !.bridge = b, !.fetched = @ + 1,
                             !.tools_arg = IF b.kind = "raises" THEN NoTools
                                           ELSE FormatToolsForLlm(GetTools(b))]
    /\ pc' = "CHAT_TOOLS_READY"
    /\ UNCHANGED <<client, stream, executor, tools, messages, current_messages, response,
                   tasks, requests, second, result, emitted, propagated, fmtVars,
                   toolVars, loopVars, app, sup>>

\* llm_service.generate_response(messages=chat_history, tools=llm_formatted_tools,
\* tool_executor=execute_mcp_tool, stream=stream) is called
ChatCallOrchestrator ==
    /\ pc = "CHAT_TOOLS_READY"
    /\ door' = [door EXCEPT !.calls = @ + 1]
    /\ messages' = door.chat_history
    /\ tools' = door.tools_arg
    /\ stream' = door.stream
    /\ pc' = "CHAT_ORCH"
    /\ UNCHANGED <<client, executor, current_messages, response, tasks, requests, second,
                   result, emitted, propagated, fmtVars, toolVars, loopVars, app, sup>>

\* the call returns (a StreamingResponse or {"response": ...} is the answer)
\* or raises (HTTPException with status 500)
ChatOrchestratorEnds ==
    /\ pc = "CHAT_ORCH"
    /\ \/ door' = [door EXCEPT !.status = 200, !.orch = "returned"]
       \/ door' = [door EXCEPT !.status = 500, !.orch = "raised"]
    /\ pc' = "CHAT_DONE"
    /\ UNCHANGED <<client, stream, executor, tools, messages, current_messages, response,
                   tasks, requests, second, result, emitted, propagated, fmtVars,
                   toolVars, loopVars, app, sup>>

ChatNext ==
    \/ ChatReceive
    \/ ChatGetTools
    \/ ChatCallOrchestrator
    \/ ChatOrchestratorEnds

ChatSpec == ChatInit /\ [][ChatNext]_vars

(***************************************************************************)
(* The chat endpoint of app/main.py: its own tool round, over requests.post *)
(***************************************************************************)
CourseArgs == "{\"course\": \"CS101\"}"

\* one entry of tool_calls, by shape; function.arguments is a JSON object, text
\* that is not JSON, or a value that is not a string
AppCallOf(shape, i) ==
    [kind |-> IF shape = "nondict" THEN "str" ELSE "dict",
     id |-> IF shape = "idless" THEN None ELSE CallId(i),
     fn |-> IF shape = "badfn" THEN "other" ELSE "dict",
     name |-> IF shape = "nameless" THEN None ELSE "get_courses",
     arguments |-> CASE shape = "course" -> CourseArgs
                     [] shape = "badargs" -> InvalidArgs
                     [] shape = "nonstring" -> None
                     [] OTHER -> ValidArgs]

AppCallLists ==
    UNION {{[i \in 1..n |-> AppCallOf(f[i], i)] :
                f \in [1..n -> {"valid", "course", "badargs", "nonstring", "nameless",
                                "idless", "badfn", "nondict"}]} :
            n \in 1..MaxCalls}

\* the first answer of the provider: an error status, or a message with a
\* content and a tool_calls that is absent, a list, or not a list
AppFirstResponses ==
    {[status |-> 500, content |-> Absent, kind |-> "absent", calls |-> << >>]}
    \cup {[status |-> 200, content |-> c, kind |-> "absent", calls |-> << >>] :
            c \in FirstContents}
    \cup {[status |-> 200, content |-> None, kind |-> "notalist", calls |-> << >>]}
    \cup {[status |-> 200, content |-> None, kind |-> "list", calls |-> tcl] :
            tcl \in AppCallLists}

\* tool_call = tool_calls[0] read as the last entry
AppToolCallLast(tcl) == tcl[Len(tcl)]

\* tool_call = tool_calls[0]
AppToolCall(tcl) == tcl[1]

\* the parsed arguments without the except clauses' tool_args = {}
AppToolArgsNoFallback(a) ==
    IF a = ValidArgs THEN "dict()"
    ELSE IF a = CourseArgs THEN "dict(course='CS101')"
    ELSE "<unparsed>"

\* json.loads(tool_args_str); JSONDecodeError and TypeError give tool_args = {}
AppToolArgs(a) ==
    IF a = CourseArgs THEN "dict(course='CS101')" ELSE "dict()"

\* the content of the tool-result turn made of tool_result_data
AppToolContent(name, res) ==
    CASE res = "error" ->
            "Error executing tool '" \o name \o "': MCP server unavailable during tool execution attempt."
      [] res = "text" -> "CS101, CS202"
      [] res = "content" -> "[{\"type\": \"image\"}]"
      [] OTHER -> "{\"courses\": []}"

\* the assistant message of the first response, as appended to the history
AppAssistantTurn(first) ==
    Turn("dict", "assistant", first.content, first.kind, first.calls, Absent, Absent)

AppInit ==
    /\ pc = "APP_RECEIVED"
    /\ OrchIdle
    /\ FmtIdle
    /\ ToolIdle
    /\ LoopIdle
    /\ door = NoDoor
    /\ app \in {[NoApp EXCEPT !.key = k, !.history = h] :
                  k \in BOOLEAN,
                  h \in {<<PlainTurn("user", "What courses am I in?")>>,
                         <<PlainTurn("user", "Hello"), PlainTurn("assistant", "Hi."),
                           PlainTurn("user", "What courses am I in?")>>}}
    /\ sup = NoSup

AppReplies(a, text) ==
    /\ app' = [a EXCEPT !.reply = text]
    /\ pc' = "APP_DONE"

\* no DEEPSEEK_API_KEY: the fixed refusal, or a canned answer
AppNoKey ==
    /\ pc = "APP_RECEIVED"
    /\ ~app.key
    /\ \E text \in {"Sorry, the AI features are not available. API keys are not configured.",
                     "I'm your Canvas assistant."} :
        AppReplies(app, text)
    /\ UNCHANGED <<client, stream, executor, tools, messages, current_messages, response,
                   tasks, requests, second, result, emitted, propagated, fmtVars,
                   toolVars, loopVars, door, sup>>

\* an exception before the tool is awaited (requests.post times out, the
\* answer is not JSON): the outer except answers
AppFirstCallRaises ==
    /\ pc = "APP_RECEIVED"
    /\ app.key
    /\ AppReplies([app EXCEPT !.payloads = <<app.history>>],
                  "Sorry, there was an unexpected error processing your request: timed out")
    /\ UNCHANGED <<client, stream, executor, tools, messages, current_messages, response,
                   tasks, requests, second, result, emitted, propagated, fmtVars,
                   toolVars, loopVars, door, sup>>

\* the first answer arrives and is handled up to the return or to the await of
\* the tool
AppFirstCallReturns ==
    /\ pc = "APP_RECEIVED"
    /\ app.key
    /\ \E first \in AppFirstResponses :
        LET sent == [app EXCEPT !.first = first, !.payloads = <<app.history>>]
            asked == [sent EXCEPT !.history = Append(@, AppAssistantTurn(first))]
            tc == AppToolCall(first.calls)
        IN  IF first.status /= 200
            THEN AppReplies(sent,
                            "Sorry, there was an error with the AI service: Unknown error")
            ELSE IF first.kind = "absent"
                THEN AppReplies(sent, IF Truthy(first.content) THEN first.content
                                      ELSE Sentinel)
            ELSE IF first.kind /= "list" \/ tc.kind /= "dict"
                THEN AppReplies(asked,
                                "Sorry, the AI returned an invalid tool request format.")
            ELSE IF tc.fn /= "dict"
                THEN IF Truthy(tc.id)
                     THEN /\ app' = [asked EXCEPT
                                !.history = Append(@, ToolTurn(tc.id, Absent,
                                                               "Error: Invalid tool function format received from LLM.")),
                                !.payloads = Append(@, Append(asked.history,
                                                 ToolTurn(tc.id, Absent,
                                                          "Error: Invalid tool function format received from LLM.")))]
                          /\ pc' = "APP_SECOND_BAD_FN"
                     ELSE AppReplies(asked,
                                     "Sorry, the AI returned an invalid tool function format.")
            ELSE IF ~Truthy(tc.name) \/ ~Truthy(tc.id)
                THEN AppReplies(asked,
                         "Sorry, the AI tried to use a tool but the request was malformed.")
            ELSE /\ app' = [asked EXCEPT
                        !.executed = Append(@, [id |-> tc.id, name |-> tc.name,
                                                args |-> AppToolArgs(tc.arguments)])]
                 /\ pc' = "APP_TOOL"
    /\ UNCHANGED <<client, stream, executor, tools, messages, current_messages, response,
                   tasks, requests, second, result, emitted, propagated, fmtVars,
                   toolVars, loopVars, door, sup>>

\* _execute_mcp_tool_internal returns {"error": ...}, a dict whose content[0] has
\* a text, a dict with another content, or another dict; the tool turn is
\* appended and the second request sent
AppToolReturns ==
    /\ pc = "APP_TOOL"
    /\ \E res \in {"error", "text", "content", "other"} :
        LET call == app.executed[Len(app.executed)]
            turn == ToolTurn(call.id, Absent, AppToolContent(call.name, res))
        IN  app' = [app EXCEPT !.tool = res,
                               !.history = Append(@, turn),
                               !.payloads = Append(@, Append(app.history, turn))]
    /\ pc' = "APP_SECOND"
    /\ UNCHANGED <<client, stream, executor, tools, messages, current_messages, response,
                   tasks, requests, second, result, emitted, propagated, fmtVars,
                   toolVars, loopVars, door, sup>>

\* the second answer: a content, no content, an error status, or an exception
\* (after the placeholder turn for a function that is not a dict every failure
\* gives the same fixed text)
AppSecondCallReturns ==
    /\ pc \in {"APP_SECOND", "APP_SECOND_BAD_FN"}
    /\ IF pc = "APP_SECOND"
       THEN \/ \E c \in SecondContents :
                 AppReplies(app, IF Truthy(c) THEN c ELSE "Sorry, I received the tool result but couldn't generate a final response.")
            \/ AppReplies(app, "Sorry, there was an error with the AI service after using a tool: Unknown error after tool execution")
            \/ AppReplies(app, "Sorry, there was an unexpected error processing your request: timed out")
       ELSE \E c \in SecondContents :
                AppReplies(app, IF Truthy(c) THEN c ELSE "Sorry, the AI returned an invalid tool function format.")
    /\ UNCHANGED <<client, stream, executor, tools, messages, current_messages, response,
                   tasks, requests, second, result, emitted, propagated, fmtVars,
                   toolVars, loopVars, door, sup>>

AppNext ==
    \/ AppNoKey
    \/ AppFirstCallRaises
    \/ AppFirstCallReturns
    \/ AppToolReturns
    \/ AppSecondCallReturns

AppSpec == AppInit /\ [][AppNext]_vars

(***************************************************************************)
(* run.py: the supervisor of the FastAPI and Streamlit child processes.     *)
(* A Python signal handler runs in the main thread between two bytecodes,   *)
(* on top of whatever the main thread was doing, a running handler          *)
(* included; sup.frames is the stack of handle_exit calls.                  *)
(***************************************************************************)
\* poll() is None
Alive(c) == sup.child[c] \in {"running", "terminating"}

SupInit ==
    /\ pc = "SUPERVISOR"
    /\ OrchIdle
    /\ FmtIdle
    /\ ToolIdle
    /\ LoopIdle
    /\ door = NoDoor
    /\ app = NoApp
    /\ sup = [NoSup EXCEPT !.mpc = "SPAWN_fastapi"]

\* the main thread runs its own code: no handle_exit call is on the stack
InMain(p) == sup.frames = << >> /\ sup.mpc = p

\* the innermost handle_exit call is at p
InHandler(p) == sup.frames /= << >> /\ sup.frames[Len(sup.frames)] = p

\* run_fastapi() / run_streamlit(): Popen has started the child
SupSpawn(c) ==
    /\ InMain("SPAWN_" \o c)
    /\ sup' = [sup EXCEPT !.child[c] = "running", !.mpc = "BIND_" \o c]
    /\ UNCHANGED <<orchVars, fmtVars, toolVars, loopVars, door, app>>

\* fastapi_process = ... / streamlit_process = ...: the name is bound
SupBind(c) ==
    /\ InMain("BIND_" \o c)
    /\ sup' = [sup EXCEPT !.bound[c] = TRUE,
                          !.mpc = IF c = "fastapi" THEN "SPAWN_streamlit" ELSE "MONITOR"]
    /\ UNCHANGED <<orchVars, fmtVars, toolVars, loopVars, door, app>>

\* the monitor loop finds a child that has exited and breaks
SupMonitorBreaks ==
    /\ InMain("MONITOR")
    /\ \E c \in DOMAIN sup.child : ~Alive(c)
    /\ sup' = [sup EXCEPT !.mpc = "FINALLY"]
    /\ UNCHANGED <<orchVars, fmtVars, toolVars, loopVars, door, app>>

\* finally: handle_exit(None, None)
SupFinally ==
    /\ InMain("FINALLY")
    /\ sup' = [sup EXCEPT !.mpc = "IN_FINALLY", !.frames = <<"H_ENTRY">>]
    /\ UNCHANGED <<orchVars, fmtVars, toolVars, loopVars, door, app>>

\* handle_exit returned to the finally block: the script ends
SupScriptEnds ==
    /\ InMain("IN_FINALLY")
    /\ sup' = [sup EXCEPT !.mpc = "EXITED"]
    /\ UNCHANGED <<orchVars, fmtVars, toolVars, loopVars, door, app>>

\* SIGINT or SIGTERM is delivered: handle_exit is called on top of the stack
SupSignal ==
    /\ sup.mpc /= "EXITED"
    /\ sup.signals < MaxSignals
    /\ sup' = [sup EXCEPT !.signals = @ + 1, !.frames = Append(@, "H_ENTRY")]
    /\ UNCHANGED <<orchVars, fmtVars, toolVars, loopVars, door, app>>

\* if is_shutting_down: return
SupHandlerEntry ==
    /\ InHandler("H_ENTRY")
    /\ IF sup.is_shutting_down
       THEN sup' = [sup EXCEPT !.frames = SubSeq(@, 1, Len(@) - 1)]
       ELSE sup' = [sup EXCEPT !.frames[Len(sup.frames)] = "H_SET"]
    /\ UNCHANGED <<orchVars, fmtVars, toolVars, loopVars, door, app>>

\* is_shutting_down = True: the shutdown body begins
SupHandlerSetFlag ==
    /\ InHandler("H_SET")
    /\ sup' = [sup EXCEPT !.is_shutting_down = TRUE, !.bodies = @ + 1,
                          !.frames[Len(sup.frames)] = "H_TERM"]
    /\ UNCHANGED <<orchVars, fmtVars, toolVars, loopVars, door, app>>

\* terminate() for each name that is bound and whose process is alive, then
\* time.sleep(1)
SupHandlerTerminate ==
    /\ InHandler("H_TERM")
    /\ sup' = [sup EXCEPT
                 !.child = [c \in DOMAIN @ |->
                               IF sup.bound[c] /\ Alive(c) THEN "terminating" ELSE @[c]],
                 !.frames[Len(sup.frames)] = "H_SLEEP"]
    /\ UNCHANGED <<orchVars, fmtVars, toolVars, loopVars, door, app>>

\* after the sleep: kill() for each name that is bound and whose process is
\* still alive
SupHandlerKill ==
    /\ InHandler("H_SLEEP")
    /\ sup' = [sup EXCEPT
                 !.child = [c \in DOMAIN @ |->
                               IF sup.bound[c] /\ Alive(c) THEN "exited" ELSE @[c]],
                 !.frames[Len(sup.frames)] = "H_EXIT"]
    /\ UNCHANGED <<orchVars, fmtVars, toolVars, loopVars, door, app>>

\* sys.exit(0): SystemExit unwinds every handle_exit call; from inside the
\* try it reaches the finally block, from the finally block it ends the script
SupHandlerExit ==
    /\ InHandler("H_EXIT")
    /\ sup' = [sup EXCEPT !.frames = << >>,
                          !.mpc = IF @ = "IN_FINALLY" THEN "EXITED" ELSE "FINALLY"]
    /\ UNCHANGED <<orchVars, fmtVars, toolVars, loopVars, door, app>>

\* a child process ends, by itself or after terminate()
SupChildExits(c) ==
    /\ Alive(c)
    /\ sup.mpc /= "EXITED"
    /\ sup' = [sup EXCEPT !.child[c] = "exited"]
    /\ UNCHANGED <<orchVars, fmtVars, toolVars, loopVars, door, app>>

SupNext ==
    \/ \E c \in DOMAIN sup.child : SupSpawn(c)
    \/ \E c \in DOMAIN sup.child : SupBind(c)
    \/ SupMonitorBreaks
    \/ SupFinally
    \/ SupScriptEnds
    \/ SupSignal
    \/ SupHandlerEntry
    \/ SupHandlerSetFlag
    \/ SupHandlerTerminate
    \/ SupHandlerKill
    \/ SupHandlerExit
    \/ \E c \in DOMAIN sup.child : SupChildExits(c)

SupSpec == SupInit /\ [][SupNext]_vars

(***************************************************************************)
(* Two runs on one event loop.  self.client is the synchronous OpenAI      *)
(* client and create() is called without await: the call returns when the  *)
(* HTTP exchange is over and the coroutine keeps the loop's thread until    *)
(* then.  A run gives the thread back when it awaits gather or ends.        *)
(***************************************************************************)
RunIds == {1, 2}

LoopRun(p, n, s) == [pc |-> p, pending |-> n, stream |-> s]

LoopInit ==
    /\ pc = "LOOP"
    /\ client = TRUE
    /\ stream = FALSE
    /\ executor = TRUE
    /\ tools = NoTools
    /\ messages = << >>
    /\ current_messages = << >>
    /\ response = NoResponse
    /\ tasks = << >>
    /\ requests = << >>
    /\ second = NoSecond
    /\ result = Absent
    /\ emitted = << >>
    /\ propagated = FALSE
    /\ FmtIdle
    /\ ToolIdle
    /\ runs \in [RunIds -> {LoopRun("INIT", 0, s) : s \in BOOLEAN}]
    /\ holder = 0
    /\ ExtIdle

LoopStep(r, p, n, h) ==
    /\ runs' = [runs EXCEPT ![r] = LoopRun(p, n, @.stream)]
    /\ holder' = h
    /\ UNCHANGED <<orchVars, fmtVars, toolVars, extVars>>

\* the loop runs the coroutine of run r up to its first create(): the thread
\* is inside the synchronous HTTP call
LoopIssueFirst(r) ==
    /\ holder = 0
    /\ runs[r].pc = "INIT"
    /\ LoopStep(r, "FIRST_CALL", 0, r)

\* create() returns or raises; the coroutine runs on without an await until it
\* ends, awaits gather, or (no invocation prepared) is inside the second create()
LoopFirstCallEnds(r) ==
    /\ runs[r].pc = "FIRST_CALL"
    /\ \/ LoopStep(r, "FAILED", 0, 0)
       \/ LoopStep(r, "FINALIZE", 0, 0)
       \/ \E n \in 1..MaxCalls : LoopStep(r, "EXECUTING_TOOLS", n, 0)
       \/ LoopStep(r, "SECOND_CALL", 0, r)

\* the loop handles the answer of one tool invocation of run r
LoopToolSettles(r) ==
    /\ holder = 0
    /\ runs[r].pc = "EXECUTING_TOOLS"
    /\ runs[r].pending > 0
    /\ LoopStep(r, "EXECUTING_TOOLS", runs[r].pending - 1, 0)

\* gather is done: the loop resumes run r, which goes into the second create()
LoopIssueSecond(r) ==
    /\ holder = 0
    /\ runs[r].pc = "EXECUTING_TOOLS"
    /\ runs[r].pending = 0
    /\ LoopStep(r, "SECOND_CALL", 0, r)

\* the second create() returns or raises and the run ends
LoopSecondCallEnds(r) ==
    /\ runs[r].pc = "SECOND_CALL"
    /\ \/ LoopStep(r, "FAILED", 0, 0)
       \/ ~runs[r].stream /\ LoopStep(r, "FINALIZE", 0, 0)

LoopNext ==
    \E r \in RunIds :
        \/ LoopIssueFirst(r)
        \/ LoopFirstCallEnds(r)
        \/ LoopToolSettles(r)
        \/ LoopIssueSecond(r)
        \/ LoopSecondCallEnds(r)

LoopSpec == LoopInit /\ [][LoopNext]_vars

(***************************************************************************)
(* The first request's comprehension on its own                            *)
(***************************************************************************)
FirstFormatInit ==
    /\ pc = "FIRST_INPUT"
    /\ client = TRUE
    /\ stream = FALSE
    /\ executor = FALSE
    /\ tools = NoTools
    /\ messages = << >>
    /\ current_messages = << >>
    /\ response = NoResponse
    /\ tasks = << >>
    /\ requests = << >>
    /\ second = NoSecond
    /\ result = Absent
    /\ emitted = << >>
    /\ propagated = FALSE
    /\ \E n \in 0..MaxTurns : fin \in TurnListsOfLen(n)
    /\ fout = << >>
    /\ fout2 = << >>
    /\ ToolIdle
    /\ LoopIdle
    /\ ExtIdle

\* formatted_messages = [{"role": ..., "content": ...} for m in current_messages if ...]
FormatForFirstCall ==
    /\ pc = "FIRST_INPUT"
    /\ fout' = FirstFormatted(fin)
    /\ pc' = "FIRST_FORMATTED"
    /\ UNCHANGED <<client, stream, executor, tools, messages, current_messages, response,
                   tasks, requests, second, result, emitted, propagated, fin, fout2, toolVars, loopVars, extVars>>

FirstFormatNext == FormatForFirstCall

FirstFormatSpec == FirstFormatInit /\ [][FirstFormatNext]_vars

(***************************************************************************)
(* The tool executor on its own: one call of execute_mcp_tool              *)
(***************************************************************************)
ToolInit ==
    /\ pc = "TOOL_CALL"
    /\ client = TRUE
    /\ stream = FALSE
    /\ executor = TRUE
    /\ tools = NoTools
    /\ messages = << >>
    /\ current_messages = << >>
    /\ response = NoResponse
    /\ tasks = << >>
    /\ requests = << >>
    /\ second = NoSecond
    /\ result = Absent
    /\ emitted = << >>
    /\ propagated = FALSE
    /\ FmtIdle
    /\ tool_name \in ToolNames
    /\ http \in Exchanges
    /\ returned = NoReturn
    /\ LoopIdle
    /\ ExtIdle

ExecuteTool ==
    /\ pc = "TOOL_CALL"
    /\ returned' = ExecuteMcpTool(tool_name, http)
    /\ pc' = "TOOL_RETURNED"
    /\ UNCHANGED <<client, stream, executor, tools, messages, current_messages, response,
                   tasks, requests, second, result, emitted, propagated, fmtVars,
                   tool_name, http, loopVars, extVars>>

ToolNext == ExecuteTool

ToolSpec == ToolInit /\ [][ToolNext]_vars

(***************************************************************************)
(* Vocabulary of the properties                                            *)
(***************************************************************************)
Calls == response.tool_calls

SecondIssued == Len(requests) = 2

SecondMessages == requests[2].messages

ToolTurnsIn(ms) == SelectSeq(ms, LAMBDA m : m.role = "tool")

\* the tool turns of the second request that follow the assistant turn of
\* this round
RoundToolTurns ==
    ToolTurnsIn(SubSeq(SecondMessages, Len(FormatMessagesForApi(messages)) + 2,
                       Len(SecondMessages)))

Ids(turns) == [i \in 1..Len(turns) |-> turns[i].tool_call_id]

ParsesAs(i, how) == JsonLoads(Calls[i].arguments).raised = how

\* the second request carries a tool turn with this id and this content
SentToolTurn(id, content) ==
    \E j \in 1..Len(SecondMessages) :
        /\ SecondMessages[j].role = "tool"
        /\ SecondMessages[j].tool_call_id = id
        /\ SecondMessages[j].content = content

TimedOut(t) == t.st = "done" /\ ~t.exc /\ t.val = TimeoutText(t.name)

RECURSIVE Concat(_)
Concat(s) == IF s = << >> THEN "" ELSE Head(s) \o Concat(Tail(s))

NonEmpty(s) == SelectSeq(s, LAMBDA f : f /= "")

\* a tool-status notification in the output sequence
StatusEvent(phase, name) == "[tool " \o phase \o "] " \o name

Finished == pc \in {"FINALIZE", "FAILED"}

(***************************************************************************)
(* Properties                                                              *)
(***************************************************************************)

\* C1: in the transcript sent with the second completion call the tool-result
\* turns appear in the order in which the first response listed their
\* requests, the requests whose arguments failed to parse included.
C1_ResultsInRequestOrder ==
    SecondIssued =>
        Ids(RoundToolTurns) = [i \in 1..Len(Calls) |-> Calls[i].id]

\* C2: the transcript sent with the second completion call holds exactly one
\* tool-result turn per request of the first response, carrying that request's
\* id; every request whose arguments parse is executed as its own invocation,
\* also when another request names the same tool.
C2_OneTurnPerRequest ==
    SecondIssued =>
        LET T == RoundToolTurns
        IN  /\ Len(Calls) >= 1
            /\ Len(T) = Len(Calls)
            /\ \A i \in 1..Len(Calls) :
                /\ Cardinality({j \in 1..Len(T) : T[j].tool_call_id = Calls[i].id}) = 1
                /\ ParsesAs(i, "no") =>
                       Cardinality({k \in 1..Len(tasks) :
                                       /\ tasks[k].id = Calls[i].id
                                       /\ tasks[k].name = Calls[i].name
                                       /\ tasks[k].st = "done"}) = 1

\* C2 witness: two requests for the same tool, both executed, second call issued
C2_SameToolTwice ==
    /\ SecondIssued
    /\ Len(Calls) = 2
    /\ Calls[1].name = Calls[2].name
    /\ ParsesAs(1, "no") /\ ParsesAs(2, "no")

\* C3 as stated: without tool-call requests in the first response no second
\* call is issued, no tool is invoked and the answer equals the first
\* response's content (streaming: one fragment, that content).
C3_AnswerIsFirstContent ==
    (pc = "FINALIZE" /\ Calls = << >>) =>
        /\ Len(requests) = 1
        /\ tasks = << >>
        /\ IF stream THEN emitted = <<response.content>>
                     ELSE result = response.content

\* C3 as amended: without tool-call requests in the first response no second
\* call is issued and no tool is invoked; the answer is the first response's
\* content when that is non-empty and the fixed sentinel otherwise (streaming:
\* one fragment, the content, or the empty string when the content is empty).
C3_AnswerIsFirstContentOrSentinel ==
    (pc \in {"NO_TOOLS", "FINALIZE"} /\ Calls = << >>) =>
        /\ Len(requests) = 1
        /\ tasks = << >>
        /\ pc = "FINALIZE" =>
            LET empty == response.content \in {None, ""}
            IN  IF stream
                THEN /\ emitted = <<IF empty THEN "" ELSE response.content>>
                     /\ result = Absent
                ELSE /\ result = IF empty THEN Sentinel ELSE response.content
                     /\ emitted = << >>

\* C3 witness: a run without tool calls whose first response had no content
C3_EmptyFirstContent ==
    /\ pc = "FINALIZE"
    /\ Calls = << >>
    /\ ~stream
    /\ response.content = None

\* C4: with the client unconfigured no completion request is issued and no
\* tool is invoked; the configuration-error message is returned as a string
\* (stream false) or as a sequence of exactly that one fragment (stream true).
C4_Unconfigured ==
    ~client =>
        /\ requests = << >>
        /\ tasks = << >>
        /\ pc \in {"INIT", "CONFIG_ERROR"}
        /\ pc = "CONFIG_ERROR" =>
            IF stream THEN emitted = <<ConfigErrorMessage>> /\ result = Absent
                      ELSE result = ConfigErrorMessage /\ emitted = << >>

\* C4 witness: the streaming call on an unconfigured client has returned
C4_UnconfiguredStream == ~client /\ stream /\ pc = "CONFIG_ERROR"

\* C5 (state part): a request whose arguments are not valid JSON is never
\* handed to the tool executor, the requests of the round whose arguments
\* parse are, and the second request carries for it a tool turn with its id
\* and the invalid-arguments message.
C5_State ==
    \A i \in 1..Len(Calls) :
        /\ ParsesAs(i, "JSONDecodeError") =>
            /\ \A k \in 1..Len(tasks) : tasks[k].id /= Calls[i].id
            /\ SecondIssued => SentToolTurn(Calls[i].id, InvalidArgsText(Calls[i].name))
        /\ (ParsesAs(i, "no") /\ (pc = "EXECUTING_TOOLS" \/ SecondIssued)) =>
            \E k \in 1..Len(tasks) : tasks[k].id = Calls[i].id

\* C5: the state part always holds, and a round that holds a request with
\* invalid arguments still gets its second completion call.
C5_InvalidArguments ==
    /\ []C5_State
    /\ (pc = "TOOLS_REQUESTED" /\ \E i \in 1..Len(Calls) : ParsesAs(i, "JSONDecodeError"))
           ~> SecondIssued

\* C5 witness: second call issued, one request had invalid arguments and a
\* sibling request was executed
C5_InvalidBesideExecuted ==
    /\ SecondIssued
    /\ \E i \in 1..Len(Calls) : ParsesAs(i, "JSONDecodeError")
    /\ \E k \in 1..Len(tasks) : tasks[k].st = "done" /\ ~tasks[k].exc

\* C6 (state part): the tool turn of an invocation that timed out carries the
\* timeout error text in the second request.
C6_State ==
    SecondIssued =>
        \A k \in 1..Len(tasks) :
            TimedOut(tasks[k]) => SentToolTurn(tasks[k].id, TimeoutText(tasks[k].name))

\* C6: a run with an invocation the tool server never answers still issues
\* the second completion call and reaches a terminal state.
C6_TimeoutTerminates ==
    /\ []C6_State
    /\ (\E k \in 1..Len(tasks) : tasks[k].st = "silent") ~> (Finished /\ SecondIssued)

\* C6 witness: a finished run one of whose invocations timed out
C6_FinishedAfterTimeout ==
    /\ Finished
    /\ SecondIssued
    /\ \E k \in 1..Len(tasks) : TimedOut(tasks[k])

\* a plain dict, or a message object as the provider returns them: an
\* assistant message
Accepted(t) ==
    \/ t.kind = "dict"
    \/ t.kind = "obj" /\ t.role = "assistant" /\ t.tool_call_id = Absent

\* C7: for a list of plain dicts and provider message objects, formatting the
\* formatted list again yields the same list.
C7_FormatIdempotent ==
    (pc = "FMT_TWICE" /\ \A i \in 1..Len(fin) : Accepted(fin[i])) => fout2 = fout

\* C8: in streaming mode after a tool round the output holds a started event
\* for the tool, later a completed event for it, and after that the non-empty
\* text fragments of the second completion call.
C8_StreamToolEvents ==
    (stream /\ Finished /\ tasks /= << >> /\ second.deltas /= << >>) =>
        \E k \in 1..Len(tasks), i \in 1..Len(emitted), j \in 1..Len(emitted) :
            /\ i < j
            /\ emitted[i] = StatusEvent("started", tasks[k].name)
            /\ emitted[j] = StatusEvent("completed", tasks[k].name)
            /\ SubSeq(emitted, j + 1, Len(emitted)) = NonEmpty(second.deltas)
            /\ Concat(SubSeq(emitted, j + 1, Len(emitted))) /= ""

\* the second completion call produced a non-empty answer
SecondAnswered == IF stream THEN Concat(second.deltas) /= "" ELSE Truthy(second.content)

\* some dispatched invocation returned a text
SomeToolReturned ==
    \E k \in 1..Len(tasks) : tasks[k].st = "done" /\ ~tasks[k].exc /\ ~TimedOut(tasks[k])

\* C9: the text a tool invocation returned is, unchanged and under the id of
\* its request, the content of a tool turn of the second request, and the
\* final answer of the run is what the second completion call produced.
C9_ToolTextAndFinalAnswer ==
    (Finished /\ SecondAnswered /\ SomeToolReturned) =>
        /\ \A k \in 1..Len(tasks) :
            ~tasks[k].exc => SentToolTurn(tasks[k].id, tasks[k].val)
        /\ IF stream THEN Concat(emitted) = Concat(second.deltas)
                     ELSE result = second.content

\* an exception other than a JSON parse error was raised while a tool call of
\* the first response was prepared
PrepRaised == \E i \in 1..Len(Calls) : ParsesAs(i, "Exception")

StreamErrors == {StreamErrorText(e) : e \in ApiErrors \cup {AsyncForTypeError}}

ErrorFragments == {i \in 1..Len(emitted) : emitted[i] \in StreamErrors}

C11_State ==
    stream =>
        /\ ~propagated
        /\ result = Absent
        /\ IF pc = "FAILED"
           THEN emitted /= << >> /\ ErrorFragments = {Len(emitted)}
           ELSE ErrorFragments = {}
        /\ SecondIssued =>
            \A i \in 1..Len(Calls) :
                ParsesAs(i, "Exception") =>
                    SentToolTurn(Calls[i].id,
                                 PrepErrorText(Calls[i].name,
                                               JsonLoads(Calls[i].arguments).value))

C12_ReturnsText ==
    pc = "TOOL_RETURNED" => (~returned.raised /\ returned.type = "str")

Contains(s, sub) ==
    \E i \in 1..(Len(s) - Len(sub) + 1) : SubSeq(s, i, i + Len(sub) - 1) = sub

\* C13: for a response with a non-2xx status the returned text contains the
\* status code and the response body.
C13_StatusAndBodyInText ==
    (pc = "TOOL_RETURNED" /\ http.kind = "response" /\ http.status \notin 200..299) =>
        /\ Contains(returned.value, ToString(http.status))
        /\ Contains(returned.value, BodyText(http.body))

\* the envelope result.content[0].text is there
EnvelopePresent(b) == b.parse = "dict" /\ b.result = "dict" /\ b.content = "text"

\* C14 as stated: for a 2xx response whose body is a JSON object the returned
\* text is the envelope's inner text when the envelope is there, and the JSON
\* of the whole response otherwise.
C14_InnerTextOrWholeBody ==
    (/\ pc = "TOOL_RETURNED"
     /\ http.kind = "response"
     /\ http.status \in 200..299
     /\ http.body.parse = "dict") =>
        IF EnvelopePresent(http.body)
        THEN http.body.text = "str" => returned.value = ToolText
        ELSE returned.value = BodyText(http.body)

\* C14 as amended: for a 2xx response whose body is a JSON object, the inner
\* text of the envelope is returned when it is a string (a list is returned
\* as the list, any other value gives the unexpected-error text); when result
\* has a content member of another shape only the JSON of that member is
\* returned; otherwise a top-level error object gives an error text with its
\* message (an error that is no object gives the unexpected-error text);
\* otherwise only the JSON of the result member is returned, {} when there is
\* none.  The members of the body outside the returned part are dropped.
C14_InnerTextOrPart ==
    (/\ pc = "TOOL_RETURNED"
     /\ http.kind = "response"
     /\ http.status \in 200..299
     /\ http.body.parse = "dict") =>
        LET b == http.body
        IN  /\ ~returned.raised
            /\ IF EnvelopePresent(b)
               THEN CASE b.text = "str" -> returned.type = "str" /\ returned.value = ToolText
                      [] b.text = "list" -> returned.type = "list"
                      [] OTHER -> returned.value = UnexpectedErrorText(tool_name)
               ELSE IF b.result = "dict" /\ b.content /= "absent"
                   THEN returned.value = ContentJson(b)
               ELSE IF b.error \in {"msg", "nomsg"}
                   THEN returned.value =
                            ToolErrorText(tool_name, IF b.error = "msg" THEN ErrorMessage
                                                     ELSE "Unknown error")
               ELSE IF b.error = "str"
                   THEN returned.value = UnexpectedErrorText(tool_name)
               ELSE returned.value = ResultJson(b)
            /\ b.extra => ~Contains(returned.value, "jsonrpc")

\* C14 witness: a 2xx JSON object without the envelope's text, with members
\* beside result.content, has been answered from its content member
C14_FallbackTaken ==
    /\ pc = "TOOL_RETURNED"
    /\ http.kind = "response"
    /\ http.status \in 200..299
    /\ http.body.parse = "dict"
    /\ http.body.content = "notext"
    /\ http.body.extra
    /\ returned.value = ContentJson(http.body)

\* C15: in non-streaming mode a run that went through a tool round returns the
\* second response's content, or the sentinel when that content is empty or
\* None; the returned string is never empty.
C15_SecondContentOrSentinel ==
    (~stream /\ pc = "FINALIZE" /\ SecondIssued) =>
        /\ result = IF second.content \in {None, ""} THEN Sentinel ELSE second.content
        /\ result \notin {"", None, Absent}
        /\ emitted = << >>

\* C15 witness: the second response came without content
C15_EmptySecondContent ==
    /\ ~stream
    /\ pc = "FINALIZE"
    /\ SecondIssued
    /\ second.content = ""

\* C16 (state part): at most two completion requests; every invocation is for
\* a request of the first response and none for a request of the second
\* response; once the second request is issued every invocation has finished.
C16_State ==
    /\ Len(requests) <= 2
    /\ \A k \in 1..Len(tasks) :
        /\ \E i \in 1..Len(Calls) : Calls[i].id = tasks[k].id
        /\ \A j \in 1..Len(second.tool_calls) : second.tool_calls[j].id /= tasks[k].id
    /\ SecondIssued => AllSettled

\* C16: a run performs at most one tool round: at most two completion calls,
\* no invocation is started or changed once the second call is issued, and the
\* tool calls of the second response are never executed.
C16_OneToolRound ==
    /\ []C16_State
    /\ [][SecondIssued => (tasks' = tasks /\ Len(requests') = 2)]_vars

\* C16 witness: the second response asked for another tool and the run ended
C16_SecondResponseAsksTool ==
    /\ pc = "FINALIZE"
    /\ SecondIssued
    /\ executor
    /\ second.tool_calls /= << >>

\* C17 (state part): a run fails only in a completion call; in the second
\* request every dispatched invocation has its tool turn, with the error text
\* when it raised and with its own result when it did not.
C17_State ==
    /\ pc = "FAILED" => (SecondIssued \/ response = NoResponse)
    /\ SecondIssued =>
        \A k \in 1..Len(tasks) :
            /\ tasks[k].st = "done"
            /\ SentToolTurn(tasks[k].id,
                            IF tasks[k].exc THEN ExecErrorText(tasks[k].name, tasks[k].val)
                            ELSE tasks[k].val)

\* C17: an invocation that raises or is slow does not abort the round: the
\* round is left only by issuing the second completion call, which waits for
\* every invocation, and each result is in its own tool turn.
C17_FailureIsolated ==
    /\ []C17_State
    /\ [][pc = "EXECUTING_TOOLS" =>
            \/ pc' = "EXECUTING_TOOLS" /\ Len(tasks') = Len(tasks)
            \/ pc' = "SECOND_CALL" /\ AllSettled /\ tasks' = tasks]_vars

\* C17 witness: of two invocations one raised and the other returned its text
C17_OneRaisedOneReturned ==
    /\ SecondIssued
    /\ \E k, l \in 1..Len(tasks) :
        /\ tasks[k].exc
        /\ ~tasks[l].exc /\ tasks[l].val \in ToolTexts

\* C18: the first completion request is non-streaming whatever the caller's
\* stream flag, it carries the tools when the caller gave a list of dicts, and
\* no later request carries them.
C18_FirstRequestNonStreaming ==
    requests /= << >> =>
        /\ requests[1].stream = FALSE
        /\ requests[1].tools = FormattedTools(tools)
        /\ \A i \in 2..Len(requests) : requests[i].tools.key /= "list"

\* C18 witness: a streaming run with tools has issued its first request
C18_StreamingRunFirstCall ==
    /\ pc = "FIRST_CALL"
    /\ stream
    /\ FormattedTools(tools).key = "list"

\* C19: the second completion request carries neither tools nor tool_choice.
C19_SecondRequestWithoutTools ==
    SecondIssued =>
        /\ requests[2].tools.key = "absent"
        /\ requests[2].tool_choice = Absent

\* C19 witness: the second request of a run that was given tools
C19_SecondCallOfRunWithTools ==
    /\ SecondIssued
    /\ requests[1].tools.key = "list"

\* C20: the second completion request is a streaming request exactly when the
\* caller asked for streaming.
C20_SecondRequestStreamsIffAsked ==
    SecondIssued => (requests[2].stream <=> stream)

\* C20 witness: the second request of a streaming run
C20_SecondCallOfStreamingRun ==
    /\ SecondIssued
    /\ stream
    /\ requests[2].stream

\* C21: while the second completion call is in flight, and ever after, every
\* dispatched invocation of the run has settled; the second request is only
\* added in a step that starts with all of them settled.
C21_FanIn ==
    /\ []((pc = "SECOND_CALL" \/ Len(requests) >= 2) =>
              \A k \in 1..Len(tasks) : tasks[k].st = "done")
    /\ [][Len(requests') > Len(requests) /\ requests /= << >> =>
              \A k \in 1..Len(tasks) : tasks[k].st \notin {"running", "silent"}]_vars

\* C21 witness: the second call is in flight after a round in which one
\* invocation was waited for until its timeout and another returned at once
C21_SecondCallAfterSlowTool ==
    /\ pc = "SECOND_CALL"
    /\ \E k, l \in 1..Len(tasks) :
        /\ TimedOut(tasks[k])
        /\ ~tasks[l].exc /\ tasks[l].val \in ToolTexts

\* C28: in streaming mode after a tool round the fragments emitted are the
\* non-empty deltas of the provider stream, in order, and the run ends normally.
C28_DeltasForwarded ==
    (stream /\ Finished /\ second.deltas /= << >>) =>
        /\ emitted = NonEmpty(second.deltas)
        /\ pc = "FINALIZE"

\* the moves of the state machine
AllowedMoves ==
    {<<"INIT", "FIRST_CALL">>, <<"INIT", "CONFIG_ERROR">>,
     <<"FIRST_CALL", "NO_TOOLS">>, <<"FIRST_CALL", "TOOLS_REQUESTED">>,
     <<"FIRST_CALL", "FAILED">>,
     <<"NO_TOOLS", "FINALIZE">>,
     <<"TOOLS_REQUESTED", "EXECUTING_TOOLS">>,
     <<"EXECUTING_TOOLS", "EXECUTING_TOOLS">>,
     <<"EXECUTING_TOOLS", "SECOND_CALL">>,
     <<"SECOND_CALL", "FINALIZE">>, <<"SECOND_CALL", "FAILED">>}

\* C29: a run of _generate_non_stream_response or _generate_stream_response
\* (the client is configured) reaches FINALIZE or FAILED when every call and
\* every invocation returns or raises, and moves only forward along the state
\* machine: no move leaves FINALIZE or FAILED and none goes back.
C29_Terminates ==
    /\ client => <>Finished
    /\ [][(<<pc, pc'>> \in AllowedMoves)]_vars

\* C29 witness: a run ended in FINALIZE after a round with a tool that raised
C29_FinalizedAfterRound ==
    /\ pc = "FINALIZE"
    /\ SecondIssued
    /\ \E k \in 1..Len(tasks) : tasks[k].exc

\* the requests of the first response whose arguments parse, in request order
Dispatched == SelectSeq(Calls, LAMBDA c : JsonLoads(c.arguments).raised = "no")

\* the tool turns appended after gather: the last Len(tasks) turns of the
\* working copy
AppendedResultTurns ==
    SubSeq(current_messages, Len(current_messages) - Len(tasks) + 1, Len(current_messages))

\* C30: the invocations are those of the requests whose arguments parse, in
\* request order, and the turn appended for the i-th result carries the id and
\* the name of the i-th dispatched request and that invocation's own result,
\* whatever the order in which the invocations settled.
C30_PairedByDispatchIndex ==
    /\ pc \in {"EXECUTING_TOOLS", "SECOND_CALL"} \/ SecondIssued =>
        /\ Len(tasks) = Len(Dispatched)
        /\ \A k \in 1..Len(tasks) :
            tasks[k].id = Dispatched[k].id /\ tasks[k].name = Dispatched[k].name
    /\ SecondIssued =>
        \A k \in 1..Len(tasks) :
            AppendedResultTurns[k] =
                ToolTurn(Dispatched[k].id, Dispatched[k].name,
                         IF tasks[k].exc THEN ExecErrorText(Dispatched[k].name, tasks[k].val)
                         ELSE tasks[k].val)

\* C30 witness: the first request was skipped at preparation, the second was
\* dispatched and returned a text
C30_SkippedBeforeDispatched ==
    /\ SecondIssued
    /\ Len(Calls) = 2
    /\ ParsesAs(1, "JSONDecodeError")
    /\ ParsesAs(2, "no")
    /\ tasks[1].val \in ToolTexts /\ ~tasks[1].exc

\* a turn of a well-formed transcript, as a dict: a user turn with a text, an
\* assistant turn with a text or tool_calls, a tool turn with a text and the
\* id of its request
WellFormedTurn(t) ==
    /\ t.kind = "dict"
    /\ \/ t.role \in {"user", "system"} /\ t.content = "hi" /\ t.tcs = "absent" /\ t.tool_call_id = Absent
       \/ /\ t.role = "assistant" /\ t.tool_call_id = Absent
          /\ (t.content = "hi" \/ t.tcs = "list")
       \/ /\ t.role = "tool" /\ t.tool_call_id /= Absent /\ t.tcs = "absent"
          /\ t.content \notin {Absent, None}

\* C23: for a well-formed transcript, the message list of the first completion
\* request is what _format_messages_for_api makes of the input turns, so
\* assistant turns keep their tool_calls and tool turns their tool_call_id.
C23_FirstListIsFormatted ==
    (pc = "FIRST_FORMATTED" /\ \A i \in 1..Len(fin) : WellFormedTurn(fin[i])) =>
        fout = FormatMessagesForApi(fin)

\* the tool turns among the dict turns of a list
DictToolTurns(ms) == SelectSeq(ms, LAMBDA m : m.kind = "dict" /\ m.role = "tool")

\* C24: for a list of dict turns, no tool turn of the output lacks a
\* tool_call_id (missing or None), and the tool turns of the output are the
\* input's tool turns that have one, in order, each as {role, tool_call_id,
\* content} with the empty string for an absent content.
C24_ToolTurnsNeedId ==
    (pc = "FMT_ONCE" /\ \A i \in 1..Len(fin) : fin[i].kind = "dict") =>
        /\ \A j \in 1..Len(fout) :
            fout[j].role = "tool" => fout[j].tool_call_id \notin {Absent, None}
        /\ DictToolTurns(fout) =
               FlatMap(LAMBDA m : IF m.tool_call_id \in {Absent, None} THEN << >>
                                  ELSE <<ToolTurn(m.tool_call_id, Absent,
                                                  IF m.content = Absent THEN ""
                                                  ELSE m.content)>>,
                       DictToolTurns(fin))

\* a plain dict, a provider assistant message, or something that is neither a
\* dict nor an object model_dump works on
Plausible(t) == Accepted(t) \/ t.kind = "other"

NotToolTurns(ms) == SelectSeq(ms, LAMBDA m : m.kind = "other" \/ m.role /= "tool")

\* role, content and tool_calls of a turn
Summary(t) == <<t.role, IF t.content = None THEN Absent ELSE t.content, t.tool_calls>>

\* what the rules for the roles other than tool keep of one turn
KeptOfOther(t) ==
    IF t.kind = "other" \/ t.role = Absent THEN << >>
    ELSE IF t.role \in {"user", "system"}
        THEN IF t.content \in {Absent, None} THEN << >>
             ELSE <<<<t.role, t.content, << >>>>>>
    ELSE IF t.kind = "dict" /\ t.content \in {Absent, None} /\ t.tcs = "absent" THEN << >>
    ELSE <<Summary(t)>>

\* C25: for a list of plain dicts, provider assistant messages and objects of
\* unknown type, the turns of the output that are not tool turns are, in input
\* order, the input turns kept by the rules: none without a role, a user or
\* system turn exactly as {role, content} and only with a content, an assistant
\* turn unless it is a dict with neither content nor tool_calls; a turn the
\* formatter cannot read contributes nothing.
C25_OtherRoles ==
    (pc = "FMT_ONCE" /\ \A i \in 1..Len(fin) : Plausible(fin[i])) =>
        LET out == NotToolTurns(fout)
        IN  /\ [j \in 1..Len(out) |-> Summary(out[j])] = FlatMap(KeptOfOther, NotToolTurns(fin))
            /\ \A j \in 1..Len(out) :
                /\ out[j].role /= Absent
                /\ out[j].role \in {"user", "system"} =>
                       out[j] = PlainTurn(out[j].role, out[j].content)

\* C25 witness: of two turns kept, the first an assistant dict with tool_calls
\* and no content, the second a system dict that came with further keys
C25_TwoKeptInOrder ==
    /\ pc = "FMT_ONCE"
    /\ Len(fin) = 2 /\ Len(fout) = 2
    /\ fin[1].kind = "dict" /\ fin[1].role = "assistant" /\ fin[1].content = Absent
    /\ fin[2].kind = "dict" /\ fin[2].role = "system" /\ fin[2].tool_call_id /= Absent
    /\ fout[1].role = "assistant" /\ fout[2] = PlainTurn("system", "hi")

\* C22: a request without a tool name is never handed to the tool executor,
\* and the second request carries for it a tool turn with its id whose content
\* is not a tool's answer.
C22_NamelessNotExecuted ==
    /\ \A k \in 1..Len(tasks) : tasks[k].name /= None
    /\ SecondIssued =>
        \A i \in 1..Len(Calls) :
            Calls[i].name = None =>
                \E j \in 1..Len(SecondMessages) :
                    /\ SecondMessages[j].role = "tool"
                    /\ SecondMessages[j].tool_call_id = Calls[i].id
                    /\ SecondMessages[j].content \notin ToolTexts

\* C26: in every message list sent to the provider each tool turn carries the
\* id of a tool-call request of an assistant turn earlier in that list.
C26_ToolTurnsReferToRequests ==
    \A r \in 1..Len(requests) :
        LET ms == requests[r].messages
        IN  \A j \in 1..Len(ms) :
                ms[j].role = "tool" =>
                    \E i \in 1..(j - 1) :
                        /\ ms[i].role = "assistant"
                        /\ \E c \in 1..Len(ms[i].tool_calls) :
                            ms[i].tool_calls[c].id = ms[j].tool_call_id

\* run a is inside a completion call
InCompletionCall(a) == runs[a].pc \in {"FIRST_CALL", "SECOND_CALL"}

\* C27: while one run waits for its first or second completion call, the
\* other run can take its next step: start its own completion call, or have
\* the answer of one of its tool invocations handled.
C27_OtherRunCanStep ==
    \A a \in RunIds, b \in RunIds :
        (a /= b /\ InCompletionCall(a)) =>
            /\ runs[b].pc = "INIT" => ENABLED LoopIssueFirst(b)
            /\ (runs[b].pc = "EXECUTING_TOOLS" /\ runs[b].pending > 0) =>
                   ENABLED LoopToolSettles(b)

\* C31: no step of a run changes the caller's messages list; the assistant
\* tool-call turn and the tool-result turns go to current_messages only.
C31_CallerListUnchanged == [][messages' = messages]_vars

\* C31 witness: a finished run whose private list has grown by the turns of a
\* tool round
C31_PrivateListGrew ==
    /\ Finished
    /\ SecondIssued
    /\ Len(current_messages) > Len(messages) + 1
    /\ SubSeq(current_messages, 1, Len(messages)) = messages

\* C32: when the first response requests tool calls and no tool executor was
\* supplied, no tool is invoked and no second request is issued; the run
\* finalizes with the first response's content (not streaming: the sentinel
\* when the content is empty; streaming: one fragment, possibly empty).
C32_NoExecutorNoRound ==
    (~executor /\ Calls /= << >>) =>
        /\ tasks = << >>
        /\ Len(requests) = 1
        /\ current_messages = messages
        /\ pc \in {"NO_TOOLS", "FINALIZE"}
        /\ pc = "FINALIZE" =>
            LET empty == response.content \in {None, ""}
            IN  IF stream
                THEN /\ emitted = <<IF empty THEN "" ELSE response.content>>
                     /\ result = Absent
                ELSE /\ result = IF empty THEN Sentinel ELSE response.content
                     /\ emitted = << >>

\* C32 witness: a streaming run without executor finalized on a first response
\* that asked for a tool and had no content
C32_ToolsAskedNoExecutor ==
    /\ pc = "FINALIZE"
    /\ ~executor
    /\ Calls /= << >>
    /\ stream
    /\ response.content = None

\* the catalog could not be fetched or formatted
CatalogFailed == door.bridge.kind \notin {"none", "list"}

\* C33: a failed fetch or formatting of the tool catalog does not end the
\* request: the orchestrator is called, exactly once by the end of the request,
\* with a tools argument that makes it send no tools, and only an exception of
\* the orchestrator itself gives an error status; a request with an empty
\* message ends with status 400 without any catalog fetch or orchestrator call.
C33_CatalogFailureTolerated ==
    /\ door.calls <= 1
    /\ CatalogFailed =>
        /\ FormattedTools(door.tools_arg) = NoTools
        /\ pc \in {"CHAT_TOOLS_READY", "CHAT_ORCH", "CHAT_DONE"}
        /\ pc \in {"CHAT_ORCH", "CHAT_DONE"} => door.calls = 1 /\ tools = door.tools_arg
        /\ pc = "CHAT_DONE" => (door.status = 200 \/ door.orch = "raised")
    /\ (door.body = "dict" /\ door.message = "") =>
        /\ door.fetched = 0
        /\ door.calls = 0
        /\ pc = "CHAT_DONE" => door.status = 400

\* C33 witness: a request answered with 200 although the bridge was unreachable
C33_AnsweredWithoutCatalog ==
    /\ pc = "CHAT_DONE"
    /\ door.bridge.kind = "connect_error"
    /\ door.calls = 1
    /\ door.status = 200

\* the turns of the second payload that follow the first payload's turns
AppAdded == SubSeq(app.payloads[2], Len(app.payloads[1]) + 1, Len(app.payloads[2]))

\* C34: when the first response of app/main.py's chat lists more than one tool
\* call and a second request is sent, that request carries the assistant turn
\* with all the requests followed by exactly one tool turn, which has the id of
\* the first request; no request other than the first is ever executed.
C34_OnlyFirstCallServed ==
    (app.first.kind = "list" /\ Len(app.first.calls) > 1) =>
        /\ \A k \in 1..Len(app.executed) :
            k = 1 /\ app.executed[k].id = app.first.calls[1].id
        /\ Len(app.payloads) = 2 =>
            /\ AppAdded[1] = AppAssistantTurn(app.first)
            /\ Len(AppAdded[1].tool_calls) = Len(app.first.calls)
            /\ Len(AppAdded) = 2
            /\ AppAdded[2].role = "tool"
            /\ AppAdded[2].tool_call_id = app.first.calls[1].id
            /\ \A i \in 2..Len(app.first.calls) :
                \A j \in 1..Len(app.payloads[2]) :
                    app.payloads[2][j].role = "tool" =>
                        app.payloads[2][j].tool_call_id /= app.first.calls[i].id

\* C34 witness: two requests, the first executed, the second request sent
C34_TwoAskedOneServed ==
    /\ pc = "APP_DONE"
    /\ Len(app.first.calls) = 2
    /\ Len(app.executed) = 1
    /\ Len(app.payloads) = 2
    /\ app.first.calls[2].kind = "dict" /\ app.first.calls[2].id = "c2"

\* the first request of the response is one the endpoint executes, but for its
\* arguments, which are not valid JSON
AppBadArguments ==
    /\ app.first.kind = "list"
    /\ LET tc == app.first.calls[1]
       IN  /\ tc.kind = "dict" /\ tc.fn = "dict"
           /\ Truthy(tc.name) /\ Truthy(tc.id)
           /\ tc.arguments = InvalidArgs

\* C35: a requested tool call whose arguments are not valid JSON is executed
\* with an empty argument map, and the tool turn of the second request holds
\* what the tool gave.
C35_BadArgumentsStillExecuted ==
    AppBadArguments =>
        /\ pc \in {"APP_TOOL", "APP_SECOND", "APP_DONE"}
        /\ app.executed = <<[id |-> app.first.calls[1].id,
                             name |-> app.first.calls[1].name, args |-> "dict()"]>>
        /\ pc /= "APP_TOOL" =>
            /\ Len(app.payloads) = 2
            /\ app.tool /= "none"
            /\ AppAdded[2] = ToolTurn(app.first.calls[1].id, Absent,
                                      AppToolContent(app.first.calls[1].name, app.tool))

\* C35 witness: the tool answered a call made with unparsable arguments
C35_ExecutedWithEmptyMap ==
    /\ AppBadArguments
    /\ pc = "APP_DONE"
    /\ app.tool = "text"

\* C36: the shutdown body of run.py runs at most once, and when the
\* supervisor has exited, after a child's exit or a signal, the shutdown has
\* run and has left no child process running.
C36_ShutdownLeavesNoChild ==
    /\ sup.bodies <= 1
    /\ sup.mpc = "EXITED" =>
        /\ sup.is_shutting_down
        /\ \A c \in DOMAIN sup.child : ~Alive(c)

====
